---- MODULE Spec2Model ----
(***************************************************************************)
(* IsiPython execution core: the interactive session supervisor of         *)
(* backend/app/services/executor.py, the statement-level effect of the     *)
(* transpiler of backend/app/services/transpiler.py on the programs the    *)
(* supervisor runs, and the child interpreter they are run by.             *)
(*                                                                         *)
(* Text is a sequence of tokens.  A token is a string that the code treats *)
(* as a unit: the markers ">>>" and "D-D-D:", "LINE:", "VARS:", "STEP",    *)
(* one decimal digit, the newline, or a piece of program text.  A line is  *)
(* text without a newline token.                                           *)
(***************************************************************************)
EXTENDS Integers, Sequences, FiniteSets, TLC

VARIABLES
    now,              \* time.time(), in seconds
    programs,         \* the (source, debug) requests the clients may send
    next_uuid,        \* uuid.uuid4(): the next fresh session id
    active_sessions,  \* executor.active_sessions: the registered ids
    session,          \* id -> ExecutionSession object (process apart)
    process,          \* id -> the child interpreter and its three pipes
    temp_files,       \* ids whose temp_<id>.py exists on disk
    monitor,          \* id -> position of monitor_stdout and monitor_stderr
    call,             \* the request sleeping inside start / supplyInput
    result,           \* the value last returned by an operation
    history,          \* id -> what the child wrote, what the buffer received,
                      \*       whether a call has found the child exited and
                      \*       whether a client has been told the id
    db                \* the rows of the database tables: challenges, test
                      \*       cases, submissions and progress

vars == <<now, programs, next_uuid, active_sessions, session, process,
          temp_files, monitor, call, result, history, db>>

-----------------------------------------------------------------------------
(* Bounds of the model *)

\* sessions started in one behaviour
MaxSessions == 1
\* lines a pipe holds before the writer blocks
PipeCap == 2
\* input lines buffered in the child's stdin
MaxStdin == 1
\* seconds the clock advances in one step, and the last instant modelled
ClockStep == 10
MaxClock == 20
\* lines the long program prints beyond the buffer capacity
Overflow == 2

(* Program constants *)

\* ExecutionSession.max_output_lines
max_output_lines == 100
\* _detect_infinite_loop: seconds without activity
idle_budget == 10

SessionIds == 1..MaxSessions

-----------------------------------------------------------------------------
(* Text *)

None == <<"<None>">>
NL == "\n"
PROMPT == ">>>"
DDD == "D-D-D:"

Digits == <<"0", "1", "2", "3", "4", "5", "6", "7", "8", "9">>

\* str(n) for n >= 0: the decimal digits, most significant first
RECURSIVE str(_)
str(n) == IF n < 10 THEN <<Digits[n + 1]>>
          ELSE str(n \div 10) \o <<Digits[(n % 10) + 1]>>

IsDigit(t) == \E d \in 1..10 : Digits[d] = t

DigitValue(t) == (CHOOSE d \in 1..10 : Digits[d] = t) - 1

\* int(s) for a non-empty all-digit text
RECURSIVE int(_)
int(s) == IF Len(s) = 1 THEN DigitValue(s[1])
          ELSE 10 * int(SubSeq(s, 1, Len(s) - 1)) + DigitValue(s[Len(s)])

\* line.startswith(prefix)
startswith(line, prefix) ==
    /\ Len(line) >= Len(prefix)
    /\ SubSeq(line, 1, Len(prefix)) = prefix

\* the concatenation of parts[lo..hi], by halves
RECURSIVE Concat(_, _, _)
Concat(parts, lo, hi) ==
    IF lo > hi THEN <<>>
    ELSE IF lo = hi THEN parts[lo]
    ELSE LET mid == (lo + hi) \div 2
         IN  Concat(parts, lo, mid) \o Concat(parts, mid + 1, hi)

\* "\n".join(lines)
join(lines) ==
    Concat([i \in 1..Len(lines) |->
              IF i = 1 THEN lines[i] ELSE <<NL>> \o lines[i]], 1, Len(lines))

\* the last n elements of a list: lst[-n:]
lastN(lst, n) ==
    IF Len(lst) <= n THEN lst ELSE SubSeq(lst, Len(lst) - n + 1, Len(lst))

-----------------------------------------------------------------------------
(* The transpiler, on programs given as a sequence of statement lines.     *)
(* A source line is [kind, text]: "print" a literal, "assign" a variable,  *)
(* "input" with a literal prompt, "loop" (a one-line endless loop),        *)
(* "raise" and "comment" (also a blank line).  A target line is [op, text] *)
(* with the same kinds as ops plus "print_vars" and "debug_pause".         *)

Line(op, text) == [op |-> op, text |-> text]

\* a list of target lines with the source line each came from
Emit(lines, source_line) ==
    [i \in 1..Len(lines) |-> [line |-> lines[i], src |-> source_line]]

\* transpile_code, lines 52-63: each line keeps its kind under keyword
\* substitution; output line i maps to source line i
substitute_lines(source_code) ==
    [i \in 1..Len(source_code) |->
       [line |-> Line(source_code[i].kind, source_code[i].text), src |-> i]]

is_exit_statement(line) == line.op \in {"return", "break", "continue", "raise"}

\* _add_debug_instrumentation: one line of the loop; original_source_line is
\* existing_mapping.get(line_num)
instrument_line(line, original_source_line) ==
    IF line.op = "comment"
    THEN Emit(<<line>>, original_source_line)
    ELSE Emit(<<Line("print", <<DDD, "LINE:">> \o str(original_source_line)),
                line>>
              \o (IF is_exit_statement(line) THEN <<>>
                  ELSE <<Line("print_vars", <<DDD, "VARS:">>),
                         Line("print", <<DDD, "STEP">>),
                         Line("debug_pause", <<>>)>>),
              original_source_line)

_add_debug_instrumentation(code) ==
    Concat([i \in 1..Len(code) |-> instrument_line(code[i].line, code[i].src)],
           1, Len(code))

\* _convert_input_calls: one line of the loop, then the debug_pause rewrite
convert_line(entry, debug_mode) ==
    IF entry.line.op = "input"
    THEN Emit(<<Line("print", <<PROMPT>> \o entry.line.text),
                Line("input", <<>>)>>, entry.src)
    ELSE IF debug_mode /\ entry.line.op = "debug_pause"
    THEN Emit(<<Line("input", <<>>)>>, entry.src)
    ELSE <<entry>>

_convert_input_calls(code, debug_mode) ==
    Concat([i \in 1..Len(code) |-> convert_line(code[i], debug_mode)],
           1, Len(code))

\* transpile_code: (transpiled_code, line_mapping)
transpile_code(source_code, debug_mode) ==
    LET plain == substitute_lines(source_code)
        instrumented == IF debug_mode THEN _add_debug_instrumentation(plain)
                        ELSE plain
        final == _convert_input_calls(instrumented, debug_mode)
    IN  [code |-> [i \in 1..Len(final) |-> final[i].line],
         line_mapping |-> [i \in 1..Len(final) |-> final[i].src]]

-----------------------------------------------------------------------------
(* The programs of the model *)

Src(kind, text) == [kind |-> kind, text |-> text]

\* S1: print("Molo")
Hello == <<Src("print", <<"Molo">>)>>
\* S2: igama = input("Igama: ") ; print("Molo, " + igama)
Greeting == <<Src("input", <<"Igama: ">>), Src("print", <<"Molo, Thandi">>)>>
\* S4 without output: ngexesha Inyaniso: dlula
Endless == <<Src("loop", <<>>)>>
\* a program that fails after printing
Failing == <<Src("print", <<"a">>), Src("raise", <<>>)>>
\* S6: two statements, the second prints
TwoSteps == <<Src("assign", <<>>), Src("print", <<"b">>)>>
\* a program whose own output carries the markers
Markers == <<Src("print", <<PROMPT, DDD, "x">>), Src("print", <<DDD, "STEP">>)>>
\* a program that prints the debugger's markers itself, the line number
\* not a number, and then runs on
Forged == <<Src("print", <<DDD, "LINE:", "x">>), Src("print", <<DDD, "STEP">>),
            Src("loop", <<>>)>>
\* a program that prints more lines than the buffer holds, all different
Long == [i \in 1..(max_output_lines + Overflow) |-> Src("print", str(i))]

Request(source, debug_mode) == [source |-> source, debug |-> debug_mode]

MainPrograms ==
    {Request(Hello, FALSE), Request(Greeting, FALSE), Request(Endless, FALSE),
     Request(Failing, FALSE), Request(Markers, FALSE), Request(Forged, FALSE),
     Request(TwoSteps, TRUE)}

LongPrograms == {Request(Long, FALSE)}

-----------------------------------------------------------------------------
(* State of one session *)

NoSession == [session_id |-> 0]
NoProcess == [state |-> "none"]
NoMonitor == [out |-> [pc |-> "none"], err |-> [pc |-> "none"]]
NoCall == [op |-> "none"]
NoResult == [op |-> "none"]
\* the four tables, empty
NoRows == [challenges |-> <<>>, test_cases |-> <<>>, submissions |-> <<>>,
           progress |-> <<>>]
NoHistory ==
    [written |-> <<>>, appended |-> <<>>, exit_observed |-> FALSE, known |-> FALSE]

\* a returned value is handed to its caller before the next step is taken
Delivered == result = NoResult

\* ExecutionSession.__init__ followed by lines 100-101 of _start_new_execution
ExecutionSession(session_id, original_code, line_mapping) ==
    [session_id |-> session_id,
     current_prompt |-> <<>>,
     output_lines |-> <<>>,
     error_lines |-> <<>>,
     is_waiting_for_input |-> FALSE,
     is_complete |-> FALSE,
     last_activity |-> now,
     code |-> original_code,
     line_mapping |-> line_mapping]

\* subprocess.Popen(["python", temp_file], stdin=PIPE, stdout=PIPE, stderr=PIPE)
Popen(transpiled_code) ==
    [state |-> "running", returncode |-> 0, code |-> transpiled_code, pc |-> 1,
     env |-> 0, stdin |-> <<>>, stdout |-> <<>>, stderr |-> <<>>]

\* process.poll() is None
Alive(id) == process[id].state = "running"

\* ids for which _start_new_execution spawned a child
Spawned == {id \in SessionIds : process[id].state # "none"}

InitWith(requests) ==
    /\ now = 0
    /\ programs = requests
    /\ next_uuid = 1
    /\ active_sessions = {}
    /\ session = [id \in SessionIds |-> NoSession]
    /\ process = [id \in SessionIds |-> NoProcess]
    /\ temp_files = {}
    /\ monitor = [id \in SessionIds |-> NoMonitor]
    /\ call = NoCall
    /\ result = NoResult
    /\ history = [id \in SessionIds |-> NoHistory]
    /\ db = NoRows

Init == InitWith(MainPrograms)

InitLong == InitWith(LongPrograms)

-----------------------------------------------------------------------------
(* The child interpreter running the target program *)

CurrentLine(id) == process[id].code[process[id].pc]

AtLine(id, ops) ==
    /\ Alive(id)
    /\ process[id].pc <= Len(process[id].code)
    /\ CurrentLine(id).op \in ops

\* print(...): one line into the stdout pipe
ChildPrint(id) ==
    /\ Delivered
    /\ AtLine(id, {"print", "print_vars"})
    /\ Len(process[id].stdout) < PipeCap
    /\ LET text == IF CurrentLine(id).op = "print_vars"
                   THEN CurrentLine(id).text \o str(process[id].env)
                   ELSE CurrentLine(id).text
       IN  /\ process' = [process EXCEPT ![id].stdout = Append(@, text),
                                         ![id].pc = @ + 1]
           /\ history' = [history EXCEPT ![id].written = Append(@, text)]
    /\ UNCHANGED <<db, now, programs, next_uuid, active_sessions, session,
                   temp_files, monitor, call, result>>

\* the lines held by a stream: its newlines
CountLines(text) == Cardinality({i \in 1..Len(text) : text[i] = NL})

\* a stream after its first line, newline included, has been read
AfterFirstLine(text) ==
    LET first == CHOOSE i \in 1..Len(text) :
                    text[i] = NL /\ \A j \in 1..(i - 1) : text[j] # NL
    IN  SubSeq(text, first + 1, Len(text))

\* input(""): blocks until a whole line is in stdin, then consumes it
ChildInput(id) ==
    /\ Delivered
    /\ AtLine(id, {"input"})
    /\ CountLines(process[id].stdin) > 0
    /\ process' = [process EXCEPT ![id].stdin = AfterFirstLine(@),
                                  ![id].pc = @ + 1]
    /\ UNCHANGED <<db, now, programs, next_uuid, active_sessions, session,
                   temp_files, monitor, call, result, history>>

\* a statement without output; an assignment binds one more local
ChildStatement(id) ==
    /\ Delivered
    /\ AtLine(id, {"assign", "comment"})
    /\ process' = [process EXCEPT
                     ![id].env = IF CurrentLine(id).op = "assign" THEN @ + 1 ELSE @,
                     ![id].pc = @ + 1]
    /\ UNCHANGED <<db, now, programs, next_uuid, active_sessions, session,
                   temp_files, monitor, call, result, history>>

\* an uncaught exception: the traceback goes to stderr, exit status 1
ChildRaise(id) ==
    /\ Delivered
    /\ AtLine(id, {"raise", "debug_pause"})
    /\ process' = [process EXCEPT ![id].stderr = Append(@, <<"Traceback">>),
                                  ![id].state = "exited",
                                  ![id].returncode = 1,
                                  ![id].stdin = <<>>]
    /\ UNCHANGED <<db, now, programs, next_uuid, active_sessions, session,
                   temp_files, monitor, call, result, history>>

\* the end of the program: exit status 0 ("loop" lines never end); what
\* the child left unread in stdin is lost with it
ChildExit(id) ==
    /\ Delivered
    /\ Alive(id)
    /\ process[id].pc > Len(process[id].code)
    /\ process' = [process EXCEPT ![id].state = "exited", ![id].stdin = <<>>]
    /\ UNCHANGED <<db, now, programs, next_uuid, active_sessions, session,
                   temp_files, monitor, call, result, history>>

-----------------------------------------------------------------------------
(* The stream monitors, one step per statement that touches shared state *)

\* while session.process and session.process.poll() is None
MonitorStdoutPoll(id) ==
    /\ Delivered
    /\ monitor[id].out.pc = "poll"
    /\ monitor' = [monitor EXCEPT ![id].out.pc =
                     IF Alive(id) THEN "read" ELSE "done"]
    /\ UNCHANGED <<db, now, programs, next_uuid, active_sessions, session, process,
                   temp_files, call, result, history>>

\* line = readline(); clean_line = line.rstrip('\n'), cut by 3 after ">>>".
\* At end of file readline returns "" and the loop sleeps and polls again.
MonitorStdoutRead(id) ==
    /\ Delivered
    /\ monitor[id].out.pc = "read"
    /\ IF process[id].stdout # <<>>
       THEN LET line == Head(process[id].stdout)
            IN  /\ process' = [process EXCEPT ![id].stdout = Tail(@)]
                /\ monitor' = [monitor EXCEPT ![id].out =
                      IF startswith(line, <<PROMPT>>)
                      THEN [pc |-> "cache", clean_line |-> SubSeq(line, 2, Len(line))]
                      ELSE [pc |-> "append", clean_line |-> line]]
       ELSE /\ ~Alive(id)
            /\ monitor' = [monitor EXCEPT ![id].out = [pc |-> "poll"]]
            /\ UNCHANGED process
    /\ UNCHANGED <<db, now, programs, next_uuid, active_sessions, session,
                   temp_files, call, result, history>>

\* session.current_prompt = clean_line
MonitorStdoutCache(id) ==
    /\ Delivered
    /\ monitor[id].out.pc = "cache"
    /\ session' = [session EXCEPT ![id].current_prompt = monitor[id].out.clean_line]
    /\ monitor' = [monitor EXCEPT ![id].out.pc = "append"]
    /\ UNCHANGED <<db, now, programs, next_uuid, active_sessions, process,
                   temp_files, call, result, history>>

\* add_output_line, line 31: self.output_lines.append(line)
add_output_line_append(output_lines, line) == Append(output_lines, line)

\* add_output_line, line 32: len(self.output_lines) > self.max_output_lines
add_output_line_over(output_lines) == Len(output_lines) > max_output_lines

\* add_output_line, line 34: self.output_lines[-self.max_output_lines:]
add_output_line_keep(output_lines) == lastN(output_lines, max_output_lines)

MonitorStdoutAppend(id) ==
    /\ Delivered
    /\ monitor[id].out.pc = "append"
    /\ LET appended == add_output_line_append(session[id].output_lines,
                                              monitor[id].out.clean_line)
       IN  /\ session' = [session EXCEPT ![id].output_lines = appended]
           /\ monitor' = [monitor EXCEPT ![id].out =
                 IF add_output_line_over(appended)
                 THEN [pc |-> "trim"] ELSE [pc |-> "poll"]]
    /\ history' = [history EXCEPT ![id].appended =
                     Append(@, monitor[id].out.clean_line)]
    /\ UNCHANGED <<db, now, programs, next_uuid, active_sessions, process,
                   temp_files, call, result>>

MonitorStdoutTrim(id) ==
    /\ Delivered
    /\ monitor[id].out.pc = "trim"
    /\ session' = [session EXCEPT ![id].output_lines = add_output_line_keep(@)]
    /\ monitor' = [monitor EXCEPT ![id].out.pc = "poll"]
    /\ UNCHANGED <<db, now, programs, next_uuid, active_sessions, process,
                   temp_files, call, result, history>>

\* monitor_stderr, from inside readline: the line read is appended to
\* session.error_lines and the loop test is taken; end of file ends the loop
MonitorStderr(id) ==
    /\ Delivered
    /\ monitor[id].err.pc = "read"
    /\ IF process[id].stderr # <<>>
       THEN /\ process' = [process EXCEPT ![id].stderr = Tail(@)]
            /\ session' = [session EXCEPT ![id].error_lines =
                             Append(@, Head(process[id].stderr))]
       ELSE /\ ~Alive(id)
            /\ UNCHANGED <<db, process, session>>
    /\ monitor' = [monitor EXCEPT ![id].err.pc =
                     IF Alive(id) THEN "read" ELSE "done"]
    /\ UNCHANGED <<db, now, programs, next_uuid, active_sessions,
                   temp_files, call, result, history>>

-----------------------------------------------------------------------------
(* Status classification *)

Last(lst) == lst[Len(lst)]

AllDigits(text) == text # <<>> /\ \A i \in 1..Len(text) : IsDigit(text[i])

\* _is_waiting_for_debug_step
_is_waiting_for_debug_step(s) ==
    /\ Len(s.output_lines) >= 1
    /\ Last(s.output_lines) = <<DDD, "STEP">>

\* _is_waiting_for_input, line 189, for a live child: the index -1 of an
\* empty list raises IndexError
_is_waiting_for_input(s) ==
    IF s.current_prompt = <<>> THEN "no"
    ELSE IF s.output_lines = <<>> THEN "IndexError"
    ELSE IF Last(s.output_lines) = s.current_prompt THEN "yes"
    ELSE "no"

\* _is_in_debug_mode
_is_in_debug_mode(s) ==
    \E i \in 1..Len(s.output_lines) : startswith(s.output_lines[i], <<DDD>>)

\* the buffer joined as it is
_filter_program_output_unfiltered(output_lines) == join(output_lines)

\* _filter_program_output
_filter_program_output(output_lines) ==
    join(SelectSeq(output_lines, LAMBDA line : ~startswith(line, <<DDD>>)))

\* _parse_debug_output: the loop body for one line; error is the ValueError
\* of int() on a LINE marker without a number
parse_debug_line(debug_info, line) ==
    LET rest == SubSeq(line, 3, Len(line))
    IN  IF ~debug_info.has_line /\ startswith(line, <<DDD, "LINE:">>)
        THEN IF AllDigits(rest)
             THEN [debug_info EXCEPT !.has_line = TRUE, !.line = int(rest)]
             ELSE [debug_info EXCEPT !.error = TRUE]
        ELSE IF ~debug_info.has_variables /\ startswith(line, <<DDD, "VARS:">>)
        THEN [debug_info EXCEPT !.has_variables = TRUE,
                                !.variables = IF AllDigits(rest) THEN int(rest) ELSE 0]
        ELSE debug_info

\* _parse_debug_output: reversed(output_lines[-10:]), stopping when both found
RECURSIVE parse_debug_from(_, _)
parse_debug_from(lines, debug_info) ==
    IF lines = <<>> \/ debug_info.error
       \/ (debug_info.has_line /\ debug_info.has_variables)
    THEN debug_info
    ELSE parse_debug_from(SubSeq(lines, 1, Len(lines) - 1),
                          parse_debug_line(debug_info, Last(lines)))

\* line 0 stands for an absent "line" key (None), variables 0 for {}
_parse_debug_output(output_lines) ==
    parse_debug_from(lastN(output_lines, 10),
                     [has_line |-> FALSE, line |-> 0, has_variables |-> FALSE,
                      variables |-> 0, error |-> FALSE])

\* the budget counted as spent when it is just reached
_detect_infinite_loop_at_budget(s) == now - s.last_activity >= idle_budget

\* the difference taken the wrong way round
_detect_infinite_loop_reversed(s) == s.last_activity - now > idle_budget

\* _detect_infinite_loop
_detect_infinite_loop(s) == now - s.last_activity > idle_budget

Raised(exception) == [raised |-> exception]

\* _check_execution_status: the value returned (or the exception raised) and
\* the effect on the session: "none", "waiting" (is_waiting_for_input = True),
\* "kill" (_handle_infinite_loop calls kill_session) or "finalize" (the call
\* of _finalize_session, which fails before it has any effect)
_check_execution_status(id) ==
    LET s == session[id]
        debug_info == _parse_debug_output(s.output_lines)
        output == _filter_program_output(s.output_lines)
    IN  IF ~Alive(id)
        \* line 138: _finalize_session(session, return_code) passes two
        \* arguments to a function of one parameter
        THEN [value |-> Raised("TypeError"), effect |-> "finalize"]
        ELSE IF _is_waiting_for_debug_step(s)
        THEN IF debug_info.error
             THEN [value |-> Raised("ValueError"), effect |-> "none"]
             ELSE [value |-> [session_id |-> id,
                              waiting_for_debug_step |-> TRUE,
                              waiting_for_input |-> FALSE,
                              current_line |-> debug_info.line,
                              variables |-> debug_info.variables,
                              output |-> output],
                   effect |-> "none"]
        ELSE IF _is_waiting_for_input(s) = "IndexError"
        THEN [value |-> Raised("IndexError"), effect |-> "none"]
        ELSE IF _is_waiting_for_input(s) = "yes"
        THEN IF _is_in_debug_mode(s) /\ debug_info.error
             THEN [value |-> Raised("ValueError"), effect |-> "waiting"]
             ELSE IF _is_in_debug_mode(s) /\ debug_info.line # 0
             THEN [value |-> [session_id |-> id,
                              waiting_for_input |-> TRUE,
                              prompt |-> s.current_prompt,
                              output |-> output,
                              current_line |-> debug_info.line],
                   effect |-> "waiting"]
             ELSE [value |-> [session_id |-> id,
                              waiting_for_input |-> TRUE,
                              prompt |-> s.current_prompt,
                              output |-> output],
                   effect |-> "waiting"]
        ELSE IF _detect_infinite_loop(s)
        THEN [value |-> [session_id |-> id,
                         output |-> output,
                         error |-> <<"[Timeout]">>,
                         code |-> s.code,
                         completed |-> TRUE],
              effect |-> "kill"]
        ELSE [value |-> [session_id |-> id,
                         output |-> output,
                         completed |-> FALSE,
                         still_running |-> TRUE],
              effect |-> "none"]

-----------------------------------------------------------------------------
(* kill_session and the effects of a status check *)

\* the child left running
kill_process_skipped(p) == p

\* process.kill(), lines 337-338
kill_process(p) ==
    IF p.state = "running"
    THEN [p EXCEPT !.state = "killed", !.returncode = 0 - 9, !.stdin = <<>>]
    ELSE p

\* the temp file left on disk
kill_remove_file_skipped(files, id) == files

\* kill_session, lines 340-343: os.remove(temp_file)
kill_remove_file(files, id) == files \ {id}

\* kill_session, line 346: del active_sessions[session_id]
kill_deregister(registry, id) == registry \ {id}

\* kill_session for a registered id: the three state changes
KillEffects(id) ==
    /\ process' = [process EXCEPT ![id] = kill_process(@)]
    /\ temp_files' = kill_remove_file(temp_files, id)
    /\ active_sessions' = kill_deregister(active_sessions, id)

\* the state after _check_execution_status returned `outcome`
StatusEffects(id, outcome) ==
    IF outcome.effect = "kill" /\ id \in active_sessions
    THEN /\ KillEffects(id)
         /\ UNCHANGED session
    ELSE /\ session' = [session EXCEPT ![id].is_waiting_for_input =
                          IF outcome.effect = "waiting" THEN TRUE ELSE @]
         /\ UNCHANGED <<db, process, temp_files, active_sessions>>

\* the record that a call took the exit branch of _check_execution_status
ExitObserved(id, outcome) ==
    history' = [history EXCEPT ![id].exit_observed =
                  @ \/ outcome.effect = "finalize"]

\* a session id is a uuid4 that start alone discloses, in the session_id of
\* the snapshot it returns: a client names the id of a session only after
\* that (any other id it sends belongs to no session)
KnownToClient(id) == id \in Spawned => history[id].known

\* session_id in active_sessions (lines 261, 288, 331)
in_active_sessions(id) == id \in active_sessions

SessionNotFound ==
    [output |-> None, error |-> <<"Session not found">>, completed |-> TRUE]

ProcessNotRunning ==
    [output |-> None, error |-> <<"Process is not running">>, completed |-> TRUE]

\* the except clauses of _start_new_execution and _continue_session_with_input
Failed(prefix, exception) ==
    [output |-> None, error |-> <<prefix, exception>>, completed |-> TRUE]

Caught(prefix, value) ==
    IF "raised" \in DOMAIN value THEN Failed(prefix, value.raised) ELSE value

Returned(op, id, value) == [op |-> op, id |-> id, value |-> value]

-----------------------------------------------------------------------------
(* The operations.  start and supplyInput sleep 0.5 s before they classify  *)
(* the session; the child, the monitors and other requests run meanwhile.   *)

\* the lines a client may send as input
Inputs == {<<>>, <<"Thandi">>}

\* a session whose child and monitor threads have ended
AtRest(id) ==
    /\ ~Alive(id)
    /\ monitor[id].out.pc \in {"none", "done"}
    /\ monitor[id].err.pc \in {"none", "done"}

\* sessions share nothing but the registry and the clock: the model starts
\* the next one when the earlier ones have been freed
Freed(id) == session[id] = NoSession

\* a deregistered session at rest is unreachable and its memory is freed;
\* what remains of it is the fate of its child and of its temp file
Collect(id) ==
    /\ Delivered
    /\ session[id] # NoSession
    /\ id \notin active_sessions
    /\ AtRest(id)
    /\ call = NoCall
    /\ session' = [session EXCEPT ![id] = NoSession]
    /\ process' = [process EXCEPT ![id] = [state |-> process[id].state]]
    /\ monitor' = [monitor EXCEPT ![id] = NoMonitor]
    /\ history' = [history EXCEPT ![id] =
                     [NoHistory EXCEPT !.known = history[id].known]]
    /\ UNCHANGED <<db, now, programs, next_uuid, active_sessions, temp_files,
                   call, result>>

\* _start_new_execution, lines 98-120
StartExecution(request) ==
    /\ Delivered
    /\ call = NoCall
    /\ next_uuid <= MaxSessions
    /\ \A id \in SessionIds : Freed(id)
    /\ LET session_id == next_uuid
           transpiled == transpile_code(request.source, request.debug)
       IN  /\ session' = [session EXCEPT ![session_id] =
                 ExecutionSession(session_id, request.source, transpiled.line_mapping)]
           /\ temp_files' = temp_files \cup {session_id}
           /\ process' = [process EXCEPT ![session_id] = Popen(transpiled.code)]
           /\ monitor' = [monitor EXCEPT ![session_id] =
                 [out |-> [pc |-> "poll"], err |-> [pc |-> "read"]]]
           /\ active_sessions' = active_sessions \cup {session_id}
           /\ call' = [op |-> "start", id |-> session_id]
    /\ next_uuid' = next_uuid + 1
    /\ UNCHANGED <<db, now, programs, result, history>>

\* _start_new_execution when open() or Popen raises: the except of line 125
StartFails(request, failing) ==
    /\ Delivered
    /\ call = NoCall
    /\ next_uuid <= MaxSessions
    /\ \A id \in SessionIds : Freed(id)
    /\ temp_files' = IF failing = "Popen" THEN temp_files \cup {next_uuid}
                     ELSE temp_files
    /\ result' = Returned("start", next_uuid,
                          Failed("Failed to start execution: ", "OSError"))
    /\ next_uuid' = next_uuid + 1
    /\ UNCHANGED <<db, now, programs, active_sessions, session, process, monitor,
                   call, history>>

\* _start_new_execution, lines 122-126, after the sleep
StartReturn ==
    /\ Delivered
    /\ call.op = "start"
    /\ LET outcome == _check_execution_status(call.id)
       IN  /\ StatusEffects(call.id, outcome)
           /\ history' = [history EXCEPT
                 ![call.id].exit_observed = outcome.effect = "finalize",
                 ![call.id].known = "session_id" \in DOMAIN outcome.value]
           /\ result' = Returned("start", call.id,
                 Caught("Failed to start execution: ", outcome.value))
    /\ call' = NoCall
    /\ UNCHANGED <<db, now, programs, next_uuid, monitor>>

\* _get_session_status
GetStatus(id) ==
    /\ Delivered
    /\ KnownToClient(id)
    /\ IF ~in_active_sessions(id)
       THEN /\ result' = Returned("status", id, SessionNotFound)
            /\ UNCHANGED <<db, session, process, temp_files, active_sessions,
                           history>>
       ELSE LET outcome == _check_execution_status(id)
            IN  /\ StatusEffects(id, outcome)
                /\ ExitObserved(id, outcome)
                /\ result' = Returned("status", id, outcome.value)
    /\ UNCHANGED <<db, now, programs, next_uuid, monitor, call>>

\* the test left out
process_not_running_ignored(id) == FALSE

\* _continue_session_with_input, line 266:
\* not session.process or session.process.poll() is not None
process_not_running(id) == ~Alive(id)

\* the timestamp left as it was
update_activity_skipped(s) == s

\* ExecutionSession.update_activity
update_activity(s) == [s EXCEPT !.last_activity = now]

\* _continue_session_with_input, lines 261-272: the checks and the write
ContinueWrite(id, user_input) ==
    /\ Delivered
    /\ KnownToClient(id)
    /\ call = NoCall
    /\ IF ~in_active_sessions(id)
       THEN /\ result' = Returned("continue", id, SessionNotFound)
            /\ UNCHANGED <<db, process, call>>
       ELSE IF process_not_running(id)
       THEN /\ result' = Returned("continue", id, ProcessNotRunning)
            /\ UNCHANGED <<db, process, call>>
       ELSE /\ CountLines(process[id].stdin) < MaxStdin
            /\ process' = [process EXCEPT ![id].stdin = @ \o user_input \o <<NL>>]
            /\ call' = [op |-> "continue", id |-> id, pc |-> "written",
                        line |-> user_input]
            /\ UNCHANGED result
    /\ UNCHANGED <<db, now, programs, next_uuid, active_sessions, session,
                   temp_files, monitor, history>>

\* _continue_session_with_input, lines 273-274
ContinueClear ==
    /\ Delivered
    /\ call.op = "continue"
    /\ call.pc = "written"
    /\ session' = [session EXCEPT ![call.id] =
                      [update_activity(@) EXCEPT !.current_prompt = <<>>]]
    /\ call' = [call EXCEPT !.pc = "sleep"]
    /\ UNCHANGED <<db, now, programs, next_uuid, active_sessions, process,
                   temp_files, monitor, result, history>>

\* _continue_session_with_input, lines 278-284, after the sleep
ContinueReturn ==
    /\ Delivered
    /\ call.op = "continue"
    /\ call.pc = "sleep"
    /\ LET outcome == _check_execution_status(call.id)
       IN  /\ StatusEffects(call.id, outcome)
           /\ ExitObserved(call.id, outcome)
           /\ result' = Returned("continue", call.id,
                 Caught("Failed to send input: ", outcome.value))
    /\ call' = NoCall
    /\ UNCHANGED <<db, now, programs, next_uuid, monitor>>

\* kill_session
KillSession(id) ==
    /\ Delivered
    /\ KnownToClient(id)
    /\ IF ~in_active_sessions(id)
       THEN /\ result' = Returned("kill", id,
                 [error |-> <<"Session not found">>, status |-> 404])
            /\ UNCHANGED <<db, process, temp_files, active_sessions>>
       ELSE /\ KillEffects(id)
            /\ result' = Returned("kill", id,
                 [message |-> <<"Session killed successfully">>, session_id |-> id])
    /\ UNCHANGED <<db, now, programs, next_uuid, session, monitor, call, history>>

\* the caller receives the returned value
Return ==
    /\ ~Delivered
    /\ result' = NoResult
    /\ UNCHANGED <<db, now, programs, next_uuid, active_sessions, session, process,
                   temp_files, monitor, call, history>>

\* time passes; it is read only by _detect_infinite_loop, for a live child
\* whose budget has not yet expired, so the clock is advanced only then.
\* The sleeps of start and supplyInput last 0.5 s, less than a step of the
\* clock: no step falls inside them.
Tick ==
    /\ Delivered
    /\ call = NoCall
    /\ now + ClockStep <= MaxClock
    /\ \E id \in SessionIds : Alive(id) /\ ~_detect_infinite_loop(session[id])
    /\ now' = now + ClockStep
    /\ UNCHANGED <<db, programs, next_uuid, active_sessions, session, process,
                   temp_files, monitor, call, result, history>>

Child(id) ==
    \/ ChildPrint(id)
    \/ ChildInput(id)
    \/ ChildStatement(id)
    \/ ChildRaise(id)
    \/ ChildExit(id)

\* the programs of Spec print fewer than max_output_lines lines: the trim
\* step of add_output_line is taken under SpecLong only
Monitors(id) ==
    \/ MonitorStdoutPoll(id)
    \/ MonitorStdoutRead(id)
    \/ MonitorStdoutCache(id)
    \/ MonitorStdoutAppend(id)
    \/ MonitorStderr(id)

Requests ==
    \/ \E request \in programs : StartExecution(request)
    \/ \E request \in programs, failing \in {"open", "Popen"} :
          StartFails(request, failing)
    \/ StartReturn
    \/ \E id \in SessionIds : GetStatus(id)
    \/ \E id \in SessionIds, user_input \in Inputs : ContinueWrite(id, user_input)
    \/ ContinueClear
    \/ ContinueReturn
    \/ \E id \in SessionIds : KillSession(id)

Next ==
    \/ Requests
    \/ Return
    \/ \E id \in SessionIds : Child(id) \/ Monitors(id) \/ Collect(id)
    \/ Tick

Spec == Init /\ [][Next]_vars

\* one session of a program that overflows the output buffer, observed by
\* status calls while the stdout monitor fills the buffer
NextLong ==
    \/ \E request \in programs : StartExecution(request)
    \/ StartReturn
    \/ \E id \in SessionIds : GetStatus(id)
    \/ Return
    \/ \E id \in SessionIds :
          \/ ChildPrint(id)
          \/ ChildExit(id)
          \/ MonitorStdoutPoll(id)
          \/ MonitorStdoutRead(id)
          \/ MonitorStdoutAppend(id)
          \/ MonitorStdoutTrim(id)
          \/ MonitorStderr(id)

SpecLong == InitLong /\ [][NextLong]_vars

-----------------------------------------------------------------------------
(* Properties *)

\* a status call for id returns in this step
StatusReturns(id) ==
    /\ result = NoResult
    /\ result'.op = "status"
    /\ result'.id = id

\* a supplyInput call for id begins and returns in this step (an error)
ContinueRefused(id) ==
    /\ result = NoResult
    /\ call = NoCall
    /\ result'.op = "continue"
    /\ result'.id = id

IsRecordWith(value, key) == key \in DOMAIN value

\* the terminal snapshot of _finalize_session for the session as it is
CompletedSnapshot(id, value) ==
    /\ IsRecordWith(value, "completed") /\ value.completed
    /\ IsRecordWith(value, "session_id") /\ value.session_id = id
    /\ IsRecordWith(value, "output")
    /\ value.output = _filter_program_output(session[id].output_lines)
    /\ IsRecordWith(value, "error")
    /\ value.error = IF session[id].error_lines = <<>> THEN None
                     ELSE join(session[id].error_lines)

\* the snapshot of _handle_infinite_loop
TimeoutSnapshot(id, value) ==
    /\ IsRecordWith(value, "completed") /\ value.completed
    /\ IsRecordWith(value, "error") /\ value.error = <<"[Timeout]">>
    /\ IsRecordWith(value, "code") /\ value.code = session[id].code

\* C1 (as claimed): a status or supplyInput classification that finds the
\* child exited returns the Completed snapshot with the buffered output and
\* the joined stderr text, and the session is deregistered and its temp file
\* deleted by that call.
C1_ExitObservedCompletes ==
    \A id \in SessionIds :
        ( /\ result.op \in {"status", "continue"}
          /\ result.id = id
          /\ process[id].state = "exited"
          /\ result.value \notin {SessionNotFound, ProcessNotRunning} )
        => ( /\ CompletedSnapshot(id, result.value)
             /\ id \notin active_sessions
             /\ id \notin temp_files )

Terminal(id) ==
    /\ id \in Spawned
    /\ (id \notin active_sessions \/ history[id].exit_observed)

\* C3 (as claimed): once a session is Completed or Killed, every status or
\* supplyInput that begins later returns 'Session not found' with
\* completed=true, and a deregistered id stays out of the registry.
C3_TerminalAbsorbing ==
    [][\A id \in SessionIds :
          /\ (Terminal(id) /\ (StatusReturns(id) \/ ContinueRefused(id)))
             => result'.value = SessionNotFound
          /\ (id \in Spawned /\ id \notin active_sessions)
             => id \notin active_sessions']_vars

\* C4 (as claimed): for every session whose child was spawned, temp_<id>.py
\* exists iff the session is in a non-terminal state.
C4_TempFileIffNonTerminal ==
    \A id \in Spawned : id \in temp_files <=> ~Terminal(id)

C6_BufferNeverExceedsW ==
    \A id \in SessionIds :
        session[id] # NoSession
        => Len(session[id].output_lines) <= max_output_lines

\* the lines of `lines` that do not begin with D-D-D:
WithoutMarkers(lines) == SelectSeq(lines, LAMBDA line : ~startswith(line, <<DDD>>))

\* C7 (as claimed): when start, status or supplyInput classifies a session
\* whose child has exited normally, the snapshot is terminal and its output
\* is what the child wrote to stdout, in order, the D-D-D: lines removed,
\* cut to the last max_output_lines lines.
C7_TerminalOutputIsStdout ==
    \A id \in SessionIds :
        ( /\ result.op \in {"start", "status", "continue"}
          /\ result.id = id
          /\ result.value \notin {SessionNotFound, ProcessNotRunning}
          /\ process[id].state = "exited"
          /\ process[id].returncode = 0 )
        => ( /\ IsRecordWith(result.value, "completed")
             /\ result.value.completed
             /\ result.value.output =
                   join(lastN(WithoutMarkers(history[id].written),
                              max_output_lines)) )

\* the first token of every line of a text
LineStarts(text) ==
    {text[i] : i \in {j \in 1..Len(text) : j = 1 \/ text[j - 1] = NL}}

\* C8: no snapshot returned by start, status or supplyInput has in its output
\* a line that begins with D-D-D:.
C8_NoMarkerInOutput ==
    ( /\ result.op \in {"start", "status", "continue"}
      /\ IsRecordWith(result.value, "output")
      /\ result.value.output # None )
    => DDD \notin LineStarts(result.value.output)

\* a snapshot with program output has been returned for a session whose
\* buffer holds marker lines
C8_Witness ==
    /\ result.op \in {"start", "status", "continue"}
    /\ IsRecordWith(result.value, "output")
    /\ result.value.output \notin {None, <<>>}
    /\ session[result.id] # NoSession
    /\ _is_in_debug_mode(session[result.id])

\* C9 (as claimed): a status call on a live child whose last buffered line is
\* exactly D-D-D:STEP returns waiting_for_debug_step=true and
\* waiting_for_input=false, whatever the cached prompt; an input wait is
\* reported only when the debug-step test failed, the cached prompt is
\* non-empty and the last buffered line equals it.
C9_DebugStepBeforeInputWait ==
    [][\A id \in SessionIds :
          ( /\ StatusReturns(id)
            /\ id \in active_sessions
            /\ Alive(id) )
          => LET s == session[id]
                 value == result'.value
             IN  /\ (s.output_lines # <<>> /\ Last(s.output_lines) = <<DDD, "STEP">>)
                    => ( /\ IsRecordWith(value, "waiting_for_debug_step")
                         /\ value.waiting_for_debug_step
                         /\ ~value.waiting_for_input )
                 /\ (IsRecordWith(value, "waiting_for_input")
                        /\ value.waiting_for_input)
                    => ( /\ ~_is_waiting_for_debug_step(s)
                         /\ s.current_prompt # <<>>
                         /\ s.output_lines # <<>>
                         /\ Last(s.output_lines) = s.current_prompt )]_vars

\* the child of a debug session rests at the pause after a statement: it is
\* blocked on the input("") that follows the STEP marker and everything it
\* wrote has reached the buffer
AtPause(id) ==
    /\ Alive(id)
    /\ process[id].pc \in 2..Len(process[id].code)
    /\ process[id].code[process[id].pc] = Line("input", <<>>)
    /\ process[id].code[process[id].pc - 1] = Line("print", <<DDD, "STEP">>)
    /\ process[id].stdin = <<>>
    /\ process[id].stdout = <<>>
    /\ monitor[id].out.pc \in {"poll", "read"}

\* the program of this child was instrumented for debugging
IsDebugProgram(id) ==
    \E i \in 2..Len(process[id].code) :
        /\ process[id].code[i] = Line("input", <<>>)
        /\ process[id].code[i - 1] = Line("print", <<DDD, "STEP">>)

\* an observation made at the pause after a statement is WaitingForDebugStep
\* with current_line the source line of that statement
C10_PausesInOrder ==
    \A id \in active_sessions :
        ( /\ result.op \in {"start", "status", "continue"}
          /\ result.id = id
          /\ AtPause(id) )
        => ( /\ IsRecordWith(result.value, "waiting_for_debug_step")
             /\ result.value.waiting_for_debug_step
             /\ result.value.current_line =
                   session[id].line_mapping[process[id].pc] )

\* the supplyInput that released the last pause, the program having ended
\* when it classifies the session, yields Completed
C10_LastStepCompletes ==
    \A id \in SessionIds :
        ( /\ result.op = "continue"
          /\ result.id = id
          /\ result.value \notin {SessionNotFound, ProcessNotRunning}
          /\ process[id].state = "exited"
          /\ process[id].returncode = 0
          /\ IsDebugProgram(id) )
        => ( /\ CompletedSnapshot(id, result.value)
             /\ result.value.error = None
             /\ id \notin active_sessions )

\* C10 (as claimed): in a debug session of a straight-line program the
\* observation at the pause after statement k is WaitingForDebugStep with
\* current_line the source line of statement k, and the supplyInput after
\* the last pause yields Completed.
C10_DebugStepping == C10_PausesInOrder /\ C10_LastStepCompletes

\* a kill call for id returns in this step
KillReturns(id) ==
    /\ result = NoResult
    /\ result'.op = "kill"
    /\ result'.id = id

C12_SupplyInputOrder ==
    [][\A id \in SessionIds :
          /\ (call = NoCall /\ call'.op = "continue" /\ call'.id = id)
             => ( /\ call'.pc = "written"
                  /\ process'[id].stdin =
                        process[id].stdin \o call'.line \o <<NL>>
                  /\ result' = NoResult )
          /\ (call.op = "continue" /\ call.id = id /\ call.pc = "written"
                 /\ call' # call)
             => ( /\ call'.pc = "sleep"
                  /\ session'[id].current_prompt = <<>>
                  /\ session'[id].last_activity = now
                  /\ result' = NoResult )
          /\ (call.op = "continue" /\ call.id = id /\ result'.op = "continue"
                 /\ result = NoResult)
             => call.pc = "sleep"]_vars

\* supplyInput has returned a snapshot, at a time later than the start of
\* the session, and no time has passed since it stamped last_activity
C12_Witness ==
    /\ result.op = "continue"
    /\ IsRecordWith(result.value, "session_id")
    /\ now > 0
    /\ session[result.id].last_activity = now

\* C13: supplyInput on an id that is not registered fails with 'Session not
\* found', and on a registered session whose child has ended fails with
\* 'Process is not running'; both results have completed=true and leave
\* stdin, the registry, the buffers, the cached prompt and last_activity as
\* they were; input is written only for a registered session with a live
\* child.
C13_SupplyInputRefused ==
    [][\A id \in SessionIds :
          /\ ContinueRefused(id)
             => ( /\ result'.value =
                        IF id \notin active_sessions THEN SessionNotFound
                        ELSE ProcessNotRunning
                  /\ id \in active_sessions => ~Alive(id)
                  /\ result'.value.completed
                  /\ result'.value.output = None
                  /\ UNCHANGED <<active_sessions, session, process, temp_files,
                                 call>> )
          /\ (call = NoCall /\ call'.op = "continue" /\ call'.id = id)
             => (id \in active_sessions /\ Alive(id))]_vars

\* supplyInput has just been refused on a registered session whose child
\* had ended
C13_Witness ==
    /\ result.op = "continue"
    /\ result.value = ProcessNotRunning
    /\ result.id \in active_sessions
    /\ process[result.id].state = "exited"

\* C14: status(id) on a registered session whose child is alive and whose
\* idle budget has not expired leaves the registry, the temp files, the
\* child, the output buffer, the error buffer, the cached prompt and
\* last_activity unchanged, and a status call made in the state it leaves
\* returns the same value.
C14_StatusFrame ==
    [][\A id \in SessionIds :
          ( /\ StatusReturns(id)
            /\ id \in active_sessions
            /\ Alive(id)
            /\ now - session[id].last_activity <= idle_budget )
          => ( /\ UNCHANGED <<active_sessions, temp_files, process, now>>
               /\ session'[id].output_lines = session[id].output_lines
               /\ session'[id].error_lines = session[id].error_lines
               /\ session'[id].current_prompt = session[id].current_prompt
               /\ session'[id].last_activity = session[id].last_activity
               /\ result'.value = _check_execution_status(id).value
               /\ result'.value = (_check_execution_status(id).value)' )]_vars

\* status has returned a non-terminal snapshot of a live session, and the
\* classification of the state it left gives that snapshot again
C14_Witness ==
    /\ result.op = "status"
    /\ result.id \in active_sessions
    /\ Alive(result.id)
    /\ IsRecordWith(result.value, "session_id")
    /\ ~IsRecordWith(result.value, "error")
    /\ result.value = _check_execution_status(result.id).value

-----------------------------------------------------------------------------
(***************************************************************************)
(* The transpiler on program text.  The tokens of a program are the        *)
(* newline, each character that is not a word character (the space, the   *)
(* colon, #, the two quotes, brackets, operators) and each maximal run of  *)
(* word characters (a keyword, an identifier, a number, a piece of prose). *)
(* Two word tokens are never adjacent, so the pattern \b<keyword>\b        *)
(* matches exactly the tokens equal to the keyword.                        *)
(***************************************************************************)

\* the longest program drawn, in lines
MaxLines == 2

KEYWORD_MAP ==
    << <<"Ubuxoki", "False">>, <<"Inyaniso", "True">>, <<"Akukho", "None">>,
       <<"kwaye", "and">>, <<"njenge", "as">>, <<"qinisekisa", "assert">>,
       <<"ngemva", "async">>, <<"linda", "await">>, <<"yekisa", "break">>,
       <<"iklasi", "class">>, <<"qhubeka", "continue">>, <<"chaza", "def">>,
       <<"cima", "del">>, <<"okanye", "or">>, <<"enye", "else">>,
       <<"ngaphandle", "except">>, <<"ekugqibeleni", "finally">>,
       <<"jikelele", "global">>, <<"ukuba", "if">>, <<"ngenisa", "import">>,
       <<"ngaphakathi", "in">>, <<"umsebenzi", "lambda">>,
       <<"ingaphandle", "nonlocal">>, <<"hayi", "not">>, <<"dlula", "pass">>,
       <<"phakamisa", "raise">>, <<"buyisela", "return">>, <<"zama", "try">>,
       <<"ngelixa", "while">>, <<"nge", "with">>, <<"velisa", "yield">>,
       <<"ngokulandelelana", "for">>, <<"ukusuka", "from">>, <<"ngu", "is">>,
       <<"okanye_ukuba", "elif">> >>

\* text.find(token) + 1: the first position of the token, 0 when absent
find(text, token) ==
    IF \A i \in 1..Len(text) : text[i] # token THEN 0
    ELSE CHOOSE i \in 1..Len(text) :
             text[i] = token /\ \A j \in 1..(i - 1) : text[j] # token

\* text.split(sep)
RECURSIVE split(_, _)
split(text, sep) ==
    LET i == find(text, sep)
    IN  IF i = 0 THEN <<text>>
        ELSE <<SubSeq(text, 1, i - 1)>>
             \o split(SubSeq(text, i + 1, Len(text)), sep)

\* text.splitlines(): a newline at the end of the text ends the last line
splitlines(text) ==
    LET pieces == split(text, NL)
    IN  IF Last(pieces) = <<>> THEN SubSeq(pieces, 1, Len(pieces) - 1)
        ELSE pieces

\* len(line) - len(line.lstrip())
indentation(line) ==
    IF \A i \in 1..Len(line) : line[i] = " " THEN Len(line)
    ELSE (CHOOSE i \in 1..Len(line) :
              line[i] # " " /\ \A j \in 1..(i - 1) : line[j] = " ") - 1

\* line.rstrip(chars), chars one character
rstrip(line, char) ==
    IF \A i \in 1..Len(line) : line[i] = char THEN <<>>
    ELSE SubSeq(line, 1, CHOOSE i \in 1..Len(line) :
                             /\ line[i] # char
                             /\ \A j \in (i + 1)..Len(line) : line[j] = char)

\* line.strip()
strip(line) == rstrip(SubSeq(line, indentation(line) + 1, Len(line)), " ")

\* line.replace(old, new), old not empty
RECURSIVE replace(_, _, _)
replace(line, old, new) ==
    IF Len(line) < Len(old) THEN line
    ELSE IF SubSeq(line, 1, Len(old)) = old
    THEN new \o replace(SubSeq(line, Len(old) + 1, Len(line)), old, new)
    ELSE <<line[1]>> \o replace(Tail(line), old, new)

\* re.sub(rf'\b{xhosa_kw}\b', py_kw, line) for each entry of KEYWORD_MAP, in
\* the order of the dictionary
_substitute_keywords(line) ==
    LET RECURSIVE from(_, _)
        from(text, k) ==
            IF k > Len(KEYWORD_MAP) THEN text
            ELSE from([i \in 1..Len(text) |->
                         IF text[i] = KEYWORD_MAP[k][1] THEN KEYWORD_MAP[k][2]
                         ELSE text[i]], k + 1)
    IN  from(line, 1)

\* transpile_code, the body of the loop: the line is cut at its first "#"
\* and only the part before it is substituted
transpiled_line(line) ==
    LET hash == find(line, "#")
    IN  IF hash # 0
        THEN _substitute_keywords(SubSeq(line, 1, hash - 1)) \o <<"#">>
             \o SubSeq(line, hash + 1, Len(line))
        ELSE _substitute_keywords(line)

\* existing_mapping.get(line_num, line_num)
mapping_get_default(existing_mapping, line_num) == line_num

mapping_get(existing_mapping, line_num) ==
    IF line_num \in DOMAIN existing_mapping THEN existing_mapping[line_num]
    ELSE line_num

\* is_control_structure: the line ends with a colon and its first word,
\* stripped_line.rstrip(':').split()[0], is found by "in" inside one of
\* 'if', 'elif', 'else', 'try', 'except', 'finally', 'for', 'while', 'def',
\* 'class', 'with': it is one of the eleven or, of the other words of the
\* programs drawn, one of "y", "or", "as" and "in"
is_control_structure(stripped_line) ==
    LET body == rstrip(stripped_line, ":")
        space == find(body, " ")
        first_word == IF space = 0 THEN body ELSE SubSeq(body, 1, space - 1)
    IN  /\ Last(stripped_line) = ":"
        /\ Len(first_word) = 1
        /\ first_word[1] \in {"if", "elif", "else", "try", "except",
                              "finally", "for", "while", "def", "class",
                              "with", "y", "or", "as", "in"}

\* stripped_line.startswith 'return', 'break', 'continue' or 'raise': these
\* words and, of the other words of the programs drawn, "returned"
is_exit_text(stripped_line) ==
    stripped_line[1] \in {"return", "break", "continue", "raise", "returned"}

\* _add_debug_instrumentation: the lines that replace one line
instrumented(line, original_source_line) ==
    LET stripped_line == strip(line)
        indent_str == [i \in 1..indentation(line) |-> " "]
        debug_print(rest) ==
            indent_str \o <<"print", "(", "\"", DDD>> \o rest \o <<"\"", ")">>
    IN  IF stripped_line = <<>> \/ stripped_line[1] = "#"
        THEN <<line>>
        ELSE IF is_control_structure(stripped_line) THEN <<line>>
        ELSE <<debug_print(<<"LINE:">> \o str(original_source_line)), line>>
             \o (IF is_exit_text(stripped_line) THEN <<>>
                 ELSE <<debug_print(<<"VARS:">>)
                          \o <<"+", "str", "(", "locals", ")">>,
                        debug_print(<<"STEP">>),
                        indent_str \o <<"debug_pause", "(", ")">> >>)

\* the program text and line map that a phase returns, from the lines it
\* emitted for each line of its input
PhaseResult(emitted, existing_mapping) ==
    [code |-> join(Concat(emitted, 1, Len(emitted))),
     line_mapping |->
         Concat([n \in 1..Len(emitted) |->
                   [i \in 1..Len(emitted[n]) |->
                      mapping_get(existing_mapping, n)]], 1, Len(emitted))]

\* _add_debug_instrumentation, raising IndexError at a line of colons only
add_debug_instrumentation(code, existing_mapping) ==
    LET lines == split(code, NL)
    IN  IF \E n \in 1..Len(lines) :
               strip(lines[n]) # <<>> /\ rstrip(strip(lines[n]), ":") = <<>>
        THEN [raised |-> "IndexError"]
        ELSE PhaseResult([n \in 1..Len(lines) |->
                            instrumented(lines[n],
                                         mapping_get(existing_mapping, n))],
                         existing_mapping)

\* input\s*\(\s*(["\'])(.*?)\1\s*\) matched from position i: the positions
\* of the two quotes, <<0, 0>> when there is no match from i
input_call(line, i) ==
    LET skip_spaces(j) ==
            IF \A k \in j..Len(line) : line[k] = " " THEN Len(line) + 1
            ELSE CHOOSE k \in j..Len(line) :
                     line[k] # " " /\ \A m \in j..(k - 1) : line[m] = " "
        paren == skip_spaces(i + 1)
        quote == skip_spaces(paren + 1)
        closing == {c \in (quote + 1)..Len(line) :
                       /\ line[c] = line[quote]
                       /\ skip_spaces(c + 1) <= Len(line)
                       /\ line[skip_spaces(c + 1)] = ")"}
    IN  IF /\ line[i] = "input"
           /\ paren <= Len(line) /\ line[paren] = "("
           /\ quote <= Len(line) /\ line[quote] \in {"\"", "'"}
           /\ closing # {}
        THEN <<quote, CHOOSE c \in closing : \A d \in closing : c <= d>>
        ELSE <<0, 0>>

empty_input == <<"input", "(", "\"", "\"", ")">>

\* _convert_input_calls: the lines that replace one line
converted(line) ==
    LET starts == {i \in 1..Len(line) : input_call(line, i) # <<0, 0>>}
    IN  IF starts = {} THEN <<line>>
        ELSE LET i == CHOOSE i \in starts : \A j \in starts : i <= j
                 open == input_call(line, i)[1]
                 closing == input_call(line, i)[2]
                 quote_char == line[open]
                 prompt_text == SubSeq(line, open + 1, closing - 1)
             IN  << SubSeq(line, 1, indentation(line))
                      \o <<"print", "(", quote_char, PROMPT>> \o prompt_text
                      \o <<quote_char, ")">>,
                    replace(line,
                            <<"input", "(", quote_char>> \o prompt_text
                              \o <<quote_char, ")">>,
                            empty_input) >>

convert_input_calls(code, existing_mapping, debug_mode) ==
    LET lines == split(code, NL)
        emitted == [n \in 1..Len(lines) |-> converted(lines[n])]
        paused == [n \in 1..Len(lines) |->
                     [i \in 1..Len(emitted[n]) |->
                        IF debug_mode
                        THEN replace(emitted[n][i],
                                     <<"debug_pause", "(", ")">>, empty_input)
                        ELSE emitted[n][i]]]
    IN  PhaseResult(paused, existing_mapping)

\* transpile_code(source_code, debug_mode) on text
transpile(source_code, debug_mode) ==
    LET lines == splitlines(source_code)
        result_lines == [n \in 1..Len(lines) |-> transpiled_line(lines[n])]
        line_mapping == [n \in 1..Len(lines) |-> n]
        transpiled_code == join(result_lines)
        debugged == IF debug_mode
                    THEN add_debug_instrumentation(transpiled_code,
                                                   line_mapping)
                    ELSE [code |-> transpiled_code,
                          line_mapping |-> line_mapping]
    IN  IF "raised" \in DOMAIN debugged THEN debugged
        ELSE convert_input_calls(debugged.code, debugged.line_mapping,
                                 debug_mode)

\* the lines the programs are made of
SourceLines ==
    { <<"ukuba", " ", "x", ":">>,
      <<"ukuba", " ", "x", ":", "#", "ukuba">>,
      <<" ", "y", "=", "1">>,
      <<>>,
      <<"#", "ukuba">>,
      <<"print", "(", "\"", "ukuba", "\"", ")">>,
      <<"x", "=", "input", "(", "\"", "Igama", "\"", ")">>,
      <<"x", "=", "input", "(", "'", "a", "'", ")", "+",
        "input", "(", "'", "b", "'", ")">>,
      <<"input", "(", " ", "\"", "c", "\"", " ", ")">>,
      <<"if", " ", "x", ":">>,
      <<"ukuba_variable", "=", "UKUBA">>,
      <<" ", "buyisela", " ", "x">>,
      <<"x", "=", "\"", "#", "\"", ";", "dlula">>,
      <<":">>,
      <<"returned", "=", "1">> }

Sources ==
    {join(lines) : lines \in UNION {[1..n -> SourceLines] : n \in 0..MaxLines}}

\* a call of transpile_code: routes.py calls transpile_code(code) and
\* transpile_code(code, debug_mode=True), modes "normal" and "debug";
\* challenge_executor.py calls transpile_code(code, challenge_mode=True)
InitTranspile ==
    /\ now = 0
    /\ programs = {}
    /\ next_uuid = 1
    /\ active_sessions = {}
    /\ session = [id \in SessionIds |-> NoSession]
    /\ process = [id \in SessionIds |-> NoProcess]
    /\ temp_files = {}
    /\ monitor = [id \in SessionIds |-> NoMonitor]
    /\ call \in {[op |-> "transpile_code", source_code |-> s, mode |-> m] :
                   s \in Sources, m \in {"normal", "debug", "challenge"}}
    /\ result = NoResult
    /\ history = [id \in SessionIds |-> NoHistory]
    /\ db = NoRows

\* transpile_code(source_code) and transpile_code(source_code, debug_mode=True)
TranspileCode ==
    /\ call.op = "transpile_code"
    /\ call.mode \in {"normal", "debug"}
    /\ Delivered
    /\ result' = [op |-> "transpile_code",
                  value |-> transpile(call.source_code, call.mode = "debug")]
    /\ UNCHANGED <<db, now, programs, next_uuid, active_sessions, session,
                   process, temp_files, monitor, call, history>>

\* transpile_code(user_code, challenge_mode=True): the function has no
\* parameter of that name
TranspileChallenge ==
    /\ call.op = "transpile_code"
    /\ call.mode = "challenge"
    /\ Delivered
    /\ result' = [op |-> "transpile_code", value |-> [raised |-> "TypeError"]]
    /\ UNCHANGED <<db, now, programs, next_uuid, active_sessions, session,
                   process, temp_files, monitor, call, history>>

NextTranspile ==
    \/ TranspileCode
    \/ TranspileChallenge

SpecTranspile == InitTranspile /\ [][NextTranspile]_vars

-----------------------------------------------------------------------------
(* Properties of the transpiler                                            *)

\* the lexical class of each token of a line: "code", "quote" (a delimiter
\* of a string literal), "string" (inside a literal) or "comment" (from the
\* first # outside a literal to the end of the line)
lexical(line) ==
    LET RECURSIVE scan(_, _)
        scan(i, state) ==
            IF i > Len(line) THEN <<>>
            ELSE IF state = "comment" THEN <<"comment">> \o scan(i + 1, state)
            ELSE IF state = "code"
            THEN IF line[i] = "#" THEN <<"comment">> \o scan(i + 1, "comment")
                 ELSE IF line[i] \in {"\"", "'"}
                 THEN <<"quote">> \o scan(i + 1, line[i])
                 ELSE <<"code">> \o scan(i + 1, "code")
            ELSE IF line[i] = state THEN <<"quote">> \o scan(i + 1, "code")
            ELSE <<"string">> \o scan(i + 1, state)
    IN  scan(1, "code")

\* the positions of a line that hold one of the words in one of the
\* lexical classes
Occurrences(line, classes, words) ==
    {i \in 1..Len(line) : lexical(line)[i] \in classes /\ line[i] \in words}

source_keywords == {KEYWORD_MAP[k][1] : k \in 1..Len(KEYWORD_MAP)}

target_keywords == {KEYWORD_MAP[k][2] : k \in 1..Len(KEYWORD_MAP)}

\* transpile_code has returned a (target source, line map) pair
TranspileReturned ==
    result.op = "transpile_code" /\ IsRecordWith(result.value, "code")

\* the lines of the source program of the call
SourceOf == splitlines(call.source_code)

\* the source lines that hold a Python keyword in code position
Offending ==
    {n \in 1..Len(SourceOf) :
        Occurrences(SourceOf[n], {"code"}, target_keywords) # {}}

\* C15: transpile_code raises the foreign-keyword error exactly for the
\* programs holding a Python keyword as a standalone word in the code part
\* of a line; the error names the first such line, a Python keyword in the
\* code part of that line and the isiXhosa keyword KEYWORD_MAP pairs it with.
C15_ForeignKeywordRejected ==
    result.op = "transpile_code" =>
        IF Offending = {}
        THEN ~( /\ IsRecordWith(result.value, "raised")
                /\ result.value.raised = "ValueError" )
        ELSE /\ IsRecordWith(result.value, "raised")
             /\ result.value.raised = "ValueError"
             /\ \A n \in Offending : result.value.line <= n
             /\ result.value.line \in Offending
             /\ Occurrences(SourceOf[result.value.line], {"code"},
                            {result.value.python_keyword}) # {}
             /\ \E k \in 1..Len(KEYWORD_MAP) :
                    KEYWORD_MAP[k] = <<result.value.isixhosa_keyword,
                                       result.value.python_keyword>>

\* the lines of the target program returned
TargetOf == split(result.value.code, NL)

\* the number of tokens of a text equal to a word
Count(text, word) == Cardinality({i \in 1..Len(text) : text[i] = word})

\* C16: after transpile_code has returned for a program with no Python
\* keyword in code position, no isiXhosa keyword stands in code position in
\* any line of the target, and the identifier ukuba_variable and the
\* upper-case UKUBA occur in the target as often as in the source.
C16_KeywordsSubstituted ==
    (TranspileReturned /\ Offending = {}) =>
        /\ \A t \in 1..Len(TargetOf) :
               Occurrences(TargetOf[t], {"code"}, source_keywords) = {}
        /\ \A word \in {"ukuba_variable", "UKUBA"} :
               Count(result.value.code, word) = Count(call.source_code, word)

\* the tokens of a line that belong to its string literals (delimiters
\* included) and to its comment, in order
Verbatim(line) ==
    LET tagged == [i \in 1..Len(line) |-> <<line[i], lexical(line)[i]>>]
        kept(pair) == pair[2] \in {"quote", "string", "comment"}
    IN  SelectSeq(tagged, kept)

\* C17: for every source line that holds no input call, the target returned
\* has a line mapped to that source line whose string literals and comment
\* are, token for token, those of the source line.
C17_StringsAndCommentsVerbatim ==
    TranspileReturned =>
        \A n \in 1..Len(SourceOf) :
            (\A i \in 1..Len(SourceOf[n]) :
                 input_call(SourceOf[n], i) = <<0, 0>>)
            => \E t \in 1..Len(TargetOf) :
                   /\ result.value.line_mapping[t] = n
                   /\ Verbatim(TargetOf[t]) = Verbatim(SourceOf[n])

\* the input calls with a literal string prompt in the lines of a program,
\* each as <<line number, position, quote positions>>
LiteralInputs(lines) ==
    UNION {{<<n, i, input_call(lines[n], i)>> : i \in 1..Len(lines[n])}
               \ {<<n, i, <<0, 0>>>> : i \in 1..Len(lines[n])} :
           n \in 1..Len(lines)}

\* C18: a target returned in challenge mode holds no >>> marker; a target
\* returned in normal or debug mode holds exactly one >>> per input call
\* with a literal prompt of the source, each line holding >>> is followed
\* by a line of the same indentation that holds input(""), and every input
\* call of the target has the empty prompt.
C18_PromptSplit ==
    TranspileReturned =>
        IF call.mode = "challenge" THEN Count(result.value.code, PROMPT) = 0
        ELSE /\ Count(result.value.code, PROMPT)
                    = Cardinality(LiteralInputs(SourceOf))
             /\ \A t \in 1..Len(TargetOf) :
                    Count(TargetOf[t], PROMPT) > 0
                    => /\ t < Len(TargetOf)
                       /\ indentation(TargetOf[t + 1])
                              = indentation(TargetOf[t])
                       /\ replace(TargetOf[t + 1], empty_input, <<>>)
                              # TargetOf[t + 1]
             /\ \A call_found \in LiteralInputs(TargetOf) :
                    call_found[3][2] = call_found[3][1] + 1

CodePart(line) ==
    LET comment == {i \in 1..Len(line) : lexical(line)[i] = "comment"}
    IN  strip(SubSeq(line, 1, Len(line) - Cardinality(comment)))

\* the header of a compound statement: the code part ends with a colon and
\* begins with if, elif, else, try, except, finally, for, while, def, class
\* or with, in either language
IsHeader(line) ==
    LET header_words == {"if", "elif", "else", "try", "except", "finally",
                         "for", "while", "def", "class", "with"}
    IN  /\ CodePart(line) # <<>>
        /\ Last(CodePart(line)) = ":"
        /\ \E k \in 1..Len(KEYWORD_MAP) :
               /\ KEYWORD_MAP[k][2] \in header_words
               /\ CodePart(line)[1] \in {KEYWORD_MAP[k][1], KEYWORD_MAP[k][2]}

\* C20: in a target returned in debug mode, a source line has one
\* D-D-D:LINE marker line, naming it, when it is a statement that is not
\* the header of a compound statement, and none when it is blank, a pure
\* comment or a header, with or without a trailing comment; D-D-D:STEP
\* lines and pauses stand only in the lines mapped to a marked source line.
C20_InstrumentableOnly ==
    (TranspileReturned /\ call.mode = "debug") =>
        LET marked ==
                {n \in 1..Len(SourceOf) :
                    \E t \in 1..Len(TargetOf) :
                        strip(TargetOf[t])
                            = <<"print", "(", "\"", DDD, "LINE:">> \o str(n)
                              \o <<"\"", ")">>}
        IN  /\ \A n \in 1..Len(SourceOf) :
                   n \in marked
                   <=> (CodePart(SourceOf[n]) # <<>> /\ ~IsHeader(SourceOf[n]))
            /\ \A t \in 1..Len(TargetOf) :
                   ( \/ Count(TargetOf[t], "STEP") > 0
                     \/ strip(TargetOf[t]) = empty_input )
                   => result.value.line_mapping[t] \in marked


-----------------------------------------------------------------------------
(* The challenge grader (challenge_executor.py).  Output texts are          *)
(* sequences of characters; the child interpreter's behaviour on a test     *)
(* case is an input of the model: it exits with some stdout and stderr,     *)
(* outlives the 10 s of communicate, or cannot be started.  The reply of    *)
(* the translation service to a stderr text is part of that input.          *)

MaxChallenges == 1
MaxSubmissions == 1

\* text.strip(): white space is removed at both ends of the whole text
text_strip(text) ==
    LET white(c) == c \in {" ", NL}
        kept == {i \in 1..Len(text) : ~white(text[i])}
    IN  IF kept = {} THEN <<>>
        ELSE SubSeq(text, CHOOSE i \in kept : \A j \in kept : i <= j,
                          CHOOSE i \in kept : \A j \in kept : j <= i)

\* _run_with_input(python_code, input_data, line_mapping), the child
\* behaving as in outcome
_run_with_input(python_code, input_data, line_mapping, outcome) ==
    IF outcome.kind = "timeout"
    THEN [output |-> <<>>, error |-> <<"[Timeout]">>, completed |-> TRUE]
    ELSE IF outcome.kind = "oserror"
    THEN [output |-> <<>>, error |-> <<"OSError">>, completed |-> TRUE]
    ELSE IF outcome.stderr # <<>>
    THEN [output |-> text_strip(outcome.stdout),
          error |-> outcome.translation,
          english_error |-> outcome.stderr, completed |-> TRUE]
    ELSE [output |-> outcome.stdout, error |-> None, completed |-> TRUE]

\* _execute_single_test(python_code, line_mapping, test_case)
_execute_single_test(python_code, line_mapping, test_case, outcome) ==
    LET expected_output == text_strip(test_case.expected_output)
        input_string ==
            Concat([i \in 1..Len(test_case.input_data) |->
                      IF i = 1 THEN test_case.input_data[i]
                      ELSE <<NL>> \o test_case.input_data[i]],
                   1, Len(test_case.input_data)) \o <<NL>>
        run == _run_with_input(python_code, input_string, line_mapping,
                               outcome)
        actual_output == text_strip(run.output)
    IN  IF run.error \notin {None, <<>>}
        THEN IF startswith(run.error, <<"[Timeout]">>)
             THEN [status |-> "failed", actual_output |-> run.output,
                   error_message |->
                       <<"Ikhowudi yakho ithathe ixesha elide kakhulu">>,
                   english_error |-> <<"Code took too long to execute">>]
             ELSE [status |-> "failed", actual_output |-> run.output,
                   error_message |-> run.error,
                   english_error |->
                       IF IsRecordWith(run, "english_error")
                       THEN run.english_error ELSE <<"Unkown error">>]
        ELSE IF actual_output = expected_output
        THEN [status |-> "passed", actual_output |-> actual_output]
        ELSE [status |-> "failed", actual_output |-> actual_output]

\* challenge_submission_model.update_results(submission_id, results)
update_results(rows, submission_id, results) ==
    [rows EXCEPT !.submissions[submission_id] =
        [key \in DOMAIN @ |->
            IF IsRecordWith(results, key) THEN results[key] ELSE @[key]]]

\* user_challenge_progress_model.update_progress(user_id, challenge_id,
\* submission_result), with get_or_create_progress
update_progress(rows, user_id, challenge_id, submission_result) ==
    LET mine(row) == row.user_id = user_id /\ row.challenge_id = challenge_id
        known == \E i \in 1..Len(rows.progress) : mine(rows.progress[i])
        progress ==
            IF known THEN rows.progress
            ELSE Append(rows.progress,
                        [user_id |-> user_id, challenge_id |-> challenge_id,
                         status |-> "not_started", best_score |-> 0,
                         attempts_count |-> 0])
        new_score == IF IsRecordWith(submission_result, "score")
                     THEN submission_result.score ELSE 0
        updated(row) ==
            [row EXCEPT
                !.attempts_count = @ + 1,
                !.best_score = IF new_score > @ THEN new_score ELSE @,
                !.status = IF submission_result.status = "passed"
                           THEN "completed"
                           ELSE IF @ = "not_started" THEN "in_progress"
                           ELSE @]
    IN  [rows EXCEPT !.progress =
            [i \in 1..Len(progress) |->
                IF mine(progress[i]) THEN updated(progress[i])
                ELSE progress[i]]]

\* execute_challenge_submission(challenge_id, user_id, user_code) on the
\* tables rows: the value returned, the tables afterwards and the test
\* cases _execute_single_test was called for, in the order of the calls.
\* transpiled is what the call of transpile_code at line 35 gives, outcomes
\* the behaviour of the child on each test case.
execute_challenge_submission(rows, challenge_id, user_id, user_code, transpiled, outcomes) ==
    LET submission_id == Len(rows.submissions) + 1
        created ==
            [rows EXCEPT !.submissions =
                Append(@, [challenge_id |-> challenge_id,
                           user_id |-> user_id, code |-> user_code,
                           status |-> "pending", score |-> 0,
                           tests_passed |-> 0, tests_total |-> 0])]
        test_cases ==
            SelectSeq(rows.test_cases,
                      LAMBDA row : row.challenge_id = challenge_id)
        results ==
            [i \in 1..Len(test_cases) |->
                _execute_single_test(transpiled.code, transpiled.line_mapping,
                                     test_cases[i], outcomes[i])]
        passed == {i \in 1..Len(test_cases) : results[i].status = "passed"}
        RECURSIVE score_of(_)
        score_of(i) == IF i = 0 THEN 0
                       ELSE score_of(i - 1)
                            + IF i \in passed
                              THEN test_cases[i].points_weight ELSE 0
        total_score == score_of(Len(test_cases))
        tests_passed == Cardinality(passed)
        tests_total == Len(test_cases)
        visible(i) ==
            LET test_result ==
                    [input_data |-> test_cases[i].input_data,
                     expected_output |-> test_cases[i].expected_output,
                     actual_output |-> results[i].actual_output,
                     status |-> results[i].status,
                     explanation |-> test_cases[i].explanation]
            IN  IF IsRecordWith(results[i], "error_message")
                   /\ results[i].error_message # <<>>
                THEN [key \in DOMAIN test_result
                              \cup {"error_message", "english_error"} |->
                        IF key \in DOMAIN test_result THEN test_result[key]
                        ELSE results[i][key]]
                ELSE test_result
        shown == SelectSeq([i \in 1..Len(test_cases) |-> i],
                           LAMBDA i : ~test_cases[i].is_hidden)
        hidden == {i \in 1..Len(test_cases) : test_cases[i].is_hidden}
        overall_status == IF tests_passed = tests_total THEN "passed"
                          ELSE "failed"
    IN  IF test_cases = <<>>
        THEN [value |-> [success |-> FALSE,
                         error |-> <<"No test cases found for this challenge">>],
              db |-> created, executed |-> <<>>]
        ELSE IF IsRecordWith(transpiled, "raised")
        THEN IF transpiled.raised = "ValueError"
             THEN [value |-> [success |-> FALSE,
                              english_error |-> <<"ValueError">>,
                              validation_error |-> <<"Impazamo">>],
                   db |-> update_progress(
                              update_results(created, submission_id,
                                             [status |-> "error"]),
                              user_id, challenge_id,
                              [submission_id |-> submission_id,
                               status |-> "error"]),
                   executed |-> <<>>]
             ELSE [value |-> [success |-> FALSE,
                              error |-> <<"Execution failed: ",
                                          transpiled.raised>>],
                   db |-> created, executed |-> <<>>]
        ELSE [value |->
                  [success |-> TRUE, submission_id |-> submission_id,
                   status |-> overall_status, score |-> total_score,
                   tests_passed |-> tests_passed,
                   tests_total |-> tests_total,
                   test_results |->
                       [visible_tests |->
                            [k \in 1..Len(shown) |-> visible(shown[k])],
                        hidden_tests |->
                            [total |-> Cardinality(hidden),
                             passed |-> Cardinality(hidden \cap passed),
                             failed |-> Cardinality(hidden \ passed)]]],
              db |-> update_progress(
                         update_results(created, submission_id,
                                        [status |-> overall_status,
                                         score |-> total_score,
                                         tests_passed |-> tests_passed,
                                         tests_total |-> tests_total]),
                         user_id, challenge_id,
                         [submission_id |-> submission_id,
                          status |-> overall_status,
                          score |-> total_score]),
              executed |-> [i \in 1..Len(test_cases) |-> i]]


-----------------------------------------------------------------------------
(* The admin route of challenges (admin_challenges.py) on the tables.  A    *)
(* challenge row is [status, reward_points]; its id is its position in the  *)
(* table, and the row of a deleted challenge becomes NoChallenge, so that   *)
(* no id is used twice.  The fields title, problem_statement,               *)
(* difficulty_level and estimated_time of a request are abstracted by       *)
(* fields_valid: whether Challenge.validate_data accepts them.              *)

MaxCases == 2

NoChallenge == [status |-> "deleted", reward_points |-> 0]

\* _validate_test_case_weights(test_cases, reward_points)["valid"]
_validate_test_case_weights(test_cases, reward_points) ==
    LET RECURSIVE total_weight(_)
        total_weight(i) == IF i = 0 THEN 0
                           ELSE total_weight(i - 1) + test_cases[i].points_weight
    IN  /\ \A i \in 1..Len(test_cases) : test_cases[i].points_weight >= 0
        /\ total_weight(Len(test_cases)) = reward_points

\* _validate_challenge_for_publishing(test_cases)["valid"]
_validate_challenge_for_publishing(test_cases) ==
    /\ \E i \in 1..Len(test_cases) : test_cases[i].is_example
    /\ \E i \in 1..Len(test_cases) : test_cases[i].is_hidden

\* challenge_test_case_model.delete_by_challenge(challenge_id)
delete_by_challenge(rows, challenge_id) ==
    [rows EXCEPT !.test_cases =
        SelectSeq(@, LAMBDA row : row.challenge_id # challenge_id)]

\* challenge_test_case_model.create(challenge_id, test_case) for the test
\* cases of a request in turn, up to the first one that validate_data
\* refuses: the tables afterwards and the number of test cases created
create_test_cases(rows, challenge_id, test_cases) ==
    LET accepted(test_case) == text_strip(test_case.expected_output) # <<>>
        created ==
            IF \A i \in 1..Len(test_cases) : accepted(test_cases[i])
            THEN Len(test_cases)
            ELSE (CHOOSE i \in 1..Len(test_cases) :
                      /\ ~accepted(test_cases[i])
                      /\ \A j \in 1..(i - 1) : accepted(test_cases[j])) - 1
    IN  [created |-> created,
         db |-> [rows EXCEPT !.test_cases =
                    @ \o [i \in 1..created |->
                            [test_cases[i] EXCEPT
                                !.expected_output = text_strip(@)]
                            @@ [challenge_id |-> challenge_id]]]]

\* _create_new_challenge(data): the HTTP status of the route and the tables
\* afterwards
_create_new_challenge(rows, data) ==
    LET challenge_id == Len(rows.challenges) + 1
        challenge ==
            [status |-> IF IsRecordWith(data, "status") THEN data.status
                        ELSE "draft",
             reward_points |-> IF IsRecordWith(data, "reward_points")
                               THEN data.reward_points ELSE 0]
        inserted == [rows EXCEPT !.challenges = Append(@, challenge)]
        cases == create_test_cases(inserted, challenge_id, data.test_cases)
    IN  IF ~data.fields_valid
        THEN [code |-> 400, db |-> rows]
        ELSE IF cases.created < Len(data.test_cases)
        THEN [code |-> 400,
              db |-> delete_by_challenge(
                         [cases.db EXCEPT
                             !.challenges[challenge_id] = NoChallenge],
                         challenge_id)]
        ELSE IF ~IsRecordWith(data, "action")
        THEN [code |-> 500, db |-> cases.db]
        ELSE IF data.action = "publish" /\ cases.created > 0
        THEN [code |-> 201,
              db |-> [cases.db EXCEPT
                         !.challenges[challenge_id].status = "published"]]
        ELSE [code |-> 201, db |-> cases.db]

\* _update_existing_challenge(challenge_id, data)
_update_existing_challenge(rows, challenge_id, data) ==
    LET found == /\ challenge_id \in 1..Len(rows.challenges)
                 /\ rows.challenges[challenge_id] # NoChallenge
        cases ==
            IF data.test_cases # <<>>
            THEN create_test_cases(delete_by_challenge(rows, challenge_id),
                                   challenge_id, data.test_cases)
            ELSE IF rows.challenges[challenge_id].status # "published"
            THEN [created |-> 0, db |-> delete_by_challenge(rows, challenge_id)]
            ELSE [created |-> 0, db |-> rows]
        action == IF IsRecordWith(data, "action") THEN data.action
                  ELSE "save_draft"
    IN  IF ~found
        THEN [code |-> 500, db |-> rows]
        ELSE IF cases.created < Len(data.test_cases)
        THEN [code |-> 500, db |-> cases.db]
        ELSE IF ~data.fields_valid
        THEN [code |-> 400, db |-> cases.db]
        ELSE [code |-> 200,
              db |-> [cases.db EXCEPT
                         !.challenges[challenge_id] =
                             [status |-> IF action = "publish"
                                         THEN "published" ELSE "draft",
                              reward_points |->
                                  IF IsRecordWith(data, "reward_points")
                                  THEN data.reward_points
                                  ELSE @.reward_points]]]

\* create_or_update_challenge() for the request body data
create_or_update_challenge(rows, data) ==
    LET test_cases == data.test_cases
        reward_points == IF IsRecordWith(data, "reward_points")
                         THEN data.reward_points ELSE 0
        action == IF IsRecordWith(data, "action") THEN data.action
                  ELSE "save_draft"
    IN  IF action \notin {"save_draft", "publish"}
        THEN [code |-> 400, db |-> rows]
        ELSE IF /\ test_cases # <<>>
                /\ ~_validate_test_case_weights(test_cases, reward_points)
        THEN [code |-> 400, db |-> rows]
        ELSE IF action = "publish" /\ test_cases = <<>>
        THEN [code |-> 400, db |-> rows]
        ELSE IF /\ action = "publish"
                /\ ~_validate_challenge_for_publishing(test_cases)
        THEN [code |-> 400, db |-> rows]
        ELSE IF IsRecordWith(data, "id")
        THEN _update_existing_challenge(rows, data.id, data)
        ELSE _create_new_challenge(rows, data)


-----------------------------------------------------------------------------
(* The challenges: the admin saves and publishes them, a student submits    *)
(* a solution to a published one.                                           *)

\* what the child interpreter can do on a test case, for the given stdout
\* texts; translate_error answers a stderr text with some text
Outcomes(stdouts) ==
    {[kind |-> "exit", stdout |-> out, stderr |-> <<>>, translation |-> <<>>] :
        out \in stdouts}
    \cup {[kind |-> "exit", stdout |-> out, translation |-> reply,
           stderr |-> <<"NameError", ",", " ", "line", " ", "1">>] :
            out \in stdouts, reply \in {<<"Impazamo">>, <<>>}}
    \cup {[kind |-> "timeout"], [kind |-> "oserror"]}

\* the test cases of a request body: an example or a hidden one, and one
\* without expected output, which ChallengeTestCase.validate_data refuses
TestCaseData ==
    {[input_data |-> <<<<"1">>>>, expected_output |-> expected_output,
      explanation |-> <<"kuba">>, is_hidden |-> is_hidden,
      is_example |-> ~is_hidden, points_weight |-> points_weight] :
        expected_output \in {<<"a">>}, is_hidden \in BOOLEAN,
        points_weight \in 0..1}
    \cup {[input_data |-> <<<<"1">>>>, expected_output |-> <<>>,
           explanation |-> <<"kuba">>, is_hidden |-> TRUE,
           is_example |-> FALSE, points_weight |-> 1]}

\* the request bodies of POST /api/admin/challenges; the keys id, action,
\* status and reward_points may be missing
ChallengeData ==
    {[fields_valid |-> fields_valid, test_cases |-> test_cases] @@ optional :
        fields_valid \in BOOLEAN,
        test_cases \in UNION {[1..n -> TestCaseData] : n \in 0..MaxCases},
        optional \in
            {id @@ action @@ status @@ reward_points :
                id \in {<<>>} \cup {[id |-> i] : i \in 1..MaxChallenges},
                action \in {<<>>} \cup {[action |-> a] :
                              a \in {"save_draft", "publish", "preview"}},
                status \in {<<>>, [status |-> "published"]},
                reward_points \in {<<>>} \cup {[reward_points |-> p] :
                                     p \in 1..MaxCases}}}

\* POST /api/admin/challenges
CreateOrUpdateChallenge(data) ==
    /\ Delivered
    /\ IsRecordWith(data, "id") \/ Len(db.challenges) < MaxChallenges
    /\ LET done == create_or_update_challenge(db, data)
       IN  /\ db' = done.db
           /\ result' = [op |-> "create_or_update_challenge",
                         value |-> done.code]
    /\ UNCHANGED <<now, programs, next_uuid, active_sessions, session,
                   process, temp_files, monitor, call, history>>

\* POST /api/challenges/<challenge_id>/submit: submit_challenge_solution,
\* which grades with execute_challenge_submission.  The call of
\* transpile_code at line 35 of challenge_executor.py passes challenge_mode,
\* a parameter the function does not have (see TranspileChallenge).
SubmitChallengeSolution(challenge_id, user_id, user_code, outcomes) ==
    /\ Delivered
    /\ Len(db.submissions) < MaxSubmissions
    /\ IF challenge_id \in 1..Len(db.challenges)
          /\ db.challenges[challenge_id].status = "published"
       THEN LET graded ==
                    execute_challenge_submission(
                        db, challenge_id, user_id, user_code,
                        [raised |-> "TypeError"], outcomes)
            IN  /\ db' = graded.db
                /\ result' = [op |-> "submit_challenge_solution",
                              challenge_id |-> challenge_id,
                              user_code |-> user_code,
                              outcomes |-> outcomes,
                              before |-> db,
                              executed |-> graded.executed,
                              value |-> graded.value]
       ELSE /\ db' = db
            /\ result' = [op |-> "submit_challenge_solution",
                          challenge_id |-> challenge_id,
                          user_code |-> user_code,
                          outcomes |-> outcomes,
                          before |-> db, executed |-> <<>>,
                          value |-> [error |-> <<"Challenge not available">>]]
    /\ UNCHANGED <<now, programs, next_uuid, active_sessions, session,
                   process, temp_files, monitor, call, history>>

NextChallenges ==
    \/ Delivered /\ \E data \in ChallengeData : CreateOrUpdateChallenge(data)
    \/ Delivered /\ \E challenge_id \in 1..MaxChallenges,
                        user_code \in {<<"print", "(", "\"", "ukuba", "\"", ")">>,
                                       <<"if", " ", "x", ":">>},
                        outcomes \in [1..MaxCases -> Outcomes({<<"a">>})] :
            SubmitChallengeSolution(challenge_id, "student", user_code,
                                    outcomes)
    \/ Return

SpecChallenges == InitWith({}) /\ [][NextChallenges]_vars


-----------------------------------------------------------------------------
(* Properties of the challenge grader                                       *)

\* the route has handed a submission to execute_challenge_submission
Submitted ==
    /\ result.op = "submit_challenge_solution"
    /\ ~IsRecordWith(result.value, "error")
       \/ result.value.error # <<"Challenge not available">>

\* the test cases of the challenge of the submission, in the order of the
\* test-case store
CasesOf ==
    SelectSeq(result.before.test_cases,
              LAMBDA row : row.challenge_id = result.challenge_id)

\* the test cases of the submission on which the program passes: the child
\* exits without error text and with the expected output
PassedOf ==
    {i \in 1..Len(CasesOf) :
        _execute_single_test(<<>>, <<>>, CasesOf[i],
                             result.outcomes[i]).status = "passed"}

\* the submitted program holds a Python keyword in code position
Foreign == Occurrences(result.user_code, {"code"}, target_keywords) # {}

\* C21: a submission of a program without foreign keyword to a challenge
\* with test cases is graded: the returned score is the sum of points_weight
\* over the passed cases, tests_passed their number, tests_total the number
\* of cases, status is passed iff all cases passed, and the submission
\* record holds the same four values.
C21_GradedTallies ==
    (Submitted /\ CasesOf # <<>> /\ ~Foreign) =>
        LET RECURSIVE weight(_)
            weight(i) == IF i = 0 THEN 0
                         ELSE weight(i - 1)
                              + IF i \in PassedOf
                                THEN CasesOf[i].points_weight ELSE 0
            record == db.submissions[Len(db.submissions)]
            value == result.value
        IN  /\ value.success
            /\ value.score = weight(Len(CasesOf))
            /\ value.tests_passed = Cardinality(PassedOf)
            /\ value.tests_total = Len(CasesOf)
            /\ value.status = IF PassedOf = 1..Len(CasesOf) THEN "passed"
                              ELSE "failed"
            /\ record.score = value.score
            /\ record.tests_passed = value.tests_passed
            /\ record.tests_total = value.tests_total
            /\ record.status = value.status


\* C22: when transpile_code accepts the submitted program, every test case
\* of the challenge is executed exactly once, in the order of the test-case
\* store; a case the program does not pass adds nothing to the score, and
\* the cases after it are still run and counted.
C22_EveryCaseRunOnce ==
    ( /\ Submitted
      /\ CasesOf # <<>>
      /\ ~IsRecordWith(transpile(result.user_code, FALSE), "raised") ) =>
        LET RECURSIVE weight(_)
            weight(i) == IF i = 0 THEN 0
                         ELSE weight(i - 1)
                              + IF i \in PassedOf
                                THEN CasesOf[i].points_weight ELSE 0
        IN  /\ result.executed = [i \in 1..Len(CasesOf) |-> i]
            /\ result.value.score = weight(Len(CasesOf))
            /\ result.value.tests_total = Len(CasesOf)
            /\ result.value.tests_passed = Cardinality(PassedOf)


\* C23: for a submitted program holding a Python keyword in code position
\* the grader runs no test case, sets the status of the submission record
\* to error, records the attempt in the progress of the user and returns
\* success = false with the error text (english_error) and its translation
\* (validation_error).
C23_ForeignKeywordStopsGrading ==
    (Submitted /\ CasesOf # <<>> /\ Foreign) =>
        /\ result.executed = <<>>
        /\ ~result.value.success
        /\ IsRecordWith(result.value, "english_error")
        /\ IsRecordWith(result.value, "validation_error")
        /\ db.submissions[Len(db.submissions)].status = "error"
        /\ \E i \in 1..Len(db.progress) :
               /\ db.progress[i].challenge_id = result.challenge_id
               /\ db.progress[i].attempts_count > 0


-----------------------------------------------------------------------------
(* The functions of the services applied to drawn arguments: the            *)
(* comparison of one test case (_execute_single_test), the line-number      *)
(* remap of error texts (_convert_line_numbers) and the scoring of a quiz   *)
(* (_score_quiz_submission).  Error texts are sequences of characters.      *)

MaxText == 4
MaxParts == 4
MaxQuestions == 2
\* lines a statement of a debugged program prints
MaxPrinted == 9
\* retries a wrapped function is given
MaxRetries == 2

\* the output texts of up to MaxText characters
Texts == UNION {[1..n -> {"a", " ", NL}] : n \in 0..MaxText}

\* _execute_single_test(python_code, line_mapping, test_case) called on its
\* own, as the tests do
ExecuteSingleTest(test_case, outcome) ==
    /\ Delivered
    /\ result' = [op |-> "_execute_single_test", test_case |-> test_case,
                  outcome |-> outcome,
                  value |-> _execute_single_test(<<>>, <<>>, test_case,
                                                 outcome)]
    /\ UNCHANGED <<db, now, programs, next_uuid, active_sessions, session,
                   process, temp_files, monitor, call, history>>


\* replace_line_number(match) of _convert_line_numbers, on the number of the
\* match: original_line = line_mapping.get(python_line, python_line)
replace_line_number_shifted(line_mapping, python_line) ==
    1 + IF python_line \in DOMAIN line_mapping
        THEN line_mapping[python_line] ELSE python_line

replace_line_number(line_mapping, python_line) ==
    IF python_line \in DOMAIN line_mapping
    THEN line_mapping[python_line] ELSE python_line

\* re.sub(r'line (\d+)', replace_line_number, error_message): every match,
\* from the left, is replaced by 'line ' and the number replace_line_number
\* gives for int(digits)
re_sub(error_message, line_mapping) ==
    LET word == <<"l", "i", "n", "e", " ">>
        RECURSIVE sub(_)
        sub(text) ==
            IF text = <<>> THEN <<>>
            ELSE IF /\ startswith(text, word)
                    /\ Len(text) > Len(word)
                    /\ IsDigit(text[Len(word) + 1])
            THEN LET last == CHOOSE j \in (Len(word) + 1)..Len(text) :
                                 /\ \A k \in (Len(word) + 1)..j :
                                        IsDigit(text[k])
                                 /\ j = Len(text) \/ ~IsDigit(text[j + 1])
                     python_line == int(SubSeq(text, Len(word) + 1, last))
                 IN  word
                     \o str(replace_line_number(line_mapping, python_line))
                     \o sub(SubSeq(text, last + 1, Len(text)))
            ELSE <<text[1]>> \o sub(Tail(text))
    IN  sub(error_message)

\* _convert_line_numbers(error_message, line_mapping): the text as it is
\* when there is no line mapping
_convert_line_numbers(error_message, line_mapping) ==
    IF DOMAIN line_mapping = {} THEN error_message
    ELSE re_sub(error_message, line_mapping)

\* the error texts: up to MaxParts pieces, each the word "line " or a
\* character
ErrorTexts ==
    LET pieces == {<<"l", "i", "n", "e", " ">>, <<"0">>, <<"1">>, <<"2">>,
                   <<"3">>, <<"x">>}
    IN  {Concat(parts, 1, Len(parts)) :
            parts \in UNION {[1..n -> pieces] : n \in 0..MaxParts}}

\* the line maps: target line -> source line, for some target lines
LineMaps == UNION {[keys -> 1..3] : keys \in SUBSET (1..3)}

\* _convert_line_numbers(error_message, line_mapping), as translate_error
\* calls it
ConvertLineNumbers(error_message, line_mapping) ==
    /\ Delivered
    /\ result' = [op |-> "_convert_line_numbers",
                  error_message |-> error_message,
                  line_mapping |-> line_mapping,
                  value |-> _convert_line_numbers(error_message,
                                                  line_mapping)]
    /\ UNCHANGED <<db, now, programs, next_uuid, active_sessions, session,
                   process, temp_files, monitor, call, history>>


\* _score_quiz_submission(questions, user_answers, total_points);
\* user_answers.get(question_id) is None for a question without answer, and
\* the percentage is given in hundredths
_score_quiz_submission_counted(questions, user_answers, total_points) ==
    LET user_answer(i) ==
            IF questions[i].id \in DOMAIN user_answers
            THEN user_answers[questions[i].id] ELSE None
        is_correct(i) ==
            IF user_answer(i) # None
            THEN user_answer(i) = questions[i].correct_answer ELSE FALSE
        score == Cardinality({i \in 1..Len(questions) : is_correct(i)})
    IN  [score |-> score,
         percentage |-> IF total_points > 0
                        THEN (score * 20000 + total_points)
                             \div (2 * total_points)
                        ELSE 0,
         questions_correct |-> score,
         questions_total |-> Len(questions),
         detailed_results |->
             [i \in 1..Len(questions) |->
                 [question_id |-> questions[i].id,
                  user_answer |-> user_answer(i),
                  correct_answer |-> questions[i].correct_answer,
                  is_correct |-> is_correct(i),
                  points_weight |-> questions[i].points_weight]],
         status |-> "completed"]

_score_quiz_submission(questions, user_answers, total_points) ==
    LET user_answer(i) ==
            IF questions[i].id \in DOMAIN user_answers
            THEN user_answers[questions[i].id] ELSE None
        is_correct(i) ==
            IF user_answer(i) # None
            THEN user_answer(i) = questions[i].correct_answer ELSE FALSE
        RECURSIVE total_score(_)
        total_score(i) ==
            IF i = 0 THEN 0
            ELSE total_score(i - 1)
                 + IF is_correct(i) THEN questions[i].points_weight ELSE 0
        score == total_score(Len(questions))
    IN  [score |-> score,
         percentage |-> IF total_points > 0
                        THEN (score * 20000 + total_points)
                             \div (2 * total_points)
                        ELSE 0,
         questions_correct |->
             Cardinality({i \in 1..Len(questions) : is_correct(i)}),
         questions_total |-> Len(questions),
         detailed_results |->
             [i \in 1..Len(questions) |->
                 [question_id |-> questions[i].id,
                  user_answer |-> user_answer(i),
                  correct_answer |-> questions[i].correct_answer,
                  is_correct |-> is_correct(i),
                  points_weight |-> questions[i].points_weight]],
         status |-> "completed"]

\* the question lists of a quiz and the answers of a student: a dictionary
\* from question ids to choices
Questions ==
    UNION {[1..n -> [id : 1..MaxQuestions, correct_answer : {<<"A">>, <<"B">>},
                     points_weight : 1..2]] : n \in 0..MaxQuestions}

UserAnswers ==
    UNION {[ids -> {<<"A">>, <<"B">>, None}] : ids \in SUBSET (1..MaxQuestions)}

\* _score_quiz_submission(questions, user_answers, total_points)
ScoreQuizSubmission(questions, user_answers, total_points) ==
    /\ Delivered
    /\ result' = [op |-> "_score_quiz_submission", questions |-> questions,
                  user_answers |-> user_answers,
                  total_points |-> total_points,
                  value |-> _score_quiz_submission(questions, user_answers,
                                                   total_points)]
    /\ UNCHANGED <<db, now, programs, next_uuid, active_sessions, session,
                   process, temp_files, monitor, call, history>>

\* the output buffers of a debug session at a pause: an earlier step or not,
\* then the LINE marker of the statement, the lines the statement printed,
\* the VARS marker and the STEP marker
DebugBuffers ==
    {earlier \o <<<<DDD, "LINE:">> \o str(line)>>
             \o [i \in 1..printed |-> <<"a">>]
             \o <<<<DDD, "VARS:">> \o str(variables), <<DDD, "STEP">>>> :
        earlier \in {<<>>, <<<<DDD, "LINE:">> \o str(1),
                             <<DDD, "VARS:">> \o str(0), <<DDD, "STEP">>>>},
        line \in 2..3, printed \in 0..MaxPrinted, variables \in 0..1}

\* _check_execution_status, lines 140-149: the snapshot of a debug pause for
\* a session with the given output buffer
DebugStepSnapshot(output_lines) ==
    /\ Delivered
    /\ LET debug_info == _parse_debug_output(output_lines)
       IN  result' = [op |-> "_parse_debug_output",
                      output_lines |-> output_lines,
                      value |-> IF debug_info.error
                                THEN Raised("ValueError")
                                ELSE [waiting_for_debug_step |-> TRUE,
                                      waiting_for_input |-> FALSE,
                                      current_line |-> debug_info.line,
                                      variables |-> debug_info.variables,
                                      output |-> _filter_program_output(
                                                     output_lines)]]
    /\ UNCHANGED <<db, now, programs, next_uuid, active_sessions, session,
                   process, temp_files, monitor, call, history>>

\* str(e).lower() on the words of a message
lower(error_str) ==
    [i \in 1..Len(error_str) |->
        IF error_str[i] = "Connection" THEN "connection"
        ELSE IF error_str[i] = "Timeout" THEN "timeout"
        ELSE error_str[i]]

\* the test of lines 35-38 on the lowered message: one of the four texts
\* occurs in it
mentions_connection(error_str) ==
    \E i \in 1..Len(error_str) :
        error_str[i] \in {"resource temporarily unavailable", "connection",
                          "timeout", "temporarily unavailable"}

\* the wrapper of retry_with_backoff(max_retries, base_delay) around a
\* function whose attempt number k behaves as attempts[k]: it returns, or
\* it raises the exception [os_error, errno, message].  The result holds
\* the number of calls of the function, what the wrapper did and the delays
\* slept, in units of base_delay (the jitter of at most 0.1 s left out).
retry_with_backoff(max_retries, attempts) ==
    LET RECURSIVE loop(_, _)
        loop(attempt, delays) ==
            IF attempt > max_retries
            \* line 55: raise last_exception, None when the loop never ran
            THEN [calls |-> attempt, raised |-> "TypeError",
                  delays |-> delays]
            ELSE LET e == attempts[attempt + 1]
                     retried ==
                         loop(attempt + 1, Append(delays, 2 ^ attempt))
                 IN  IF e.returns
                     THEN [calls |-> attempt + 1, returned |-> TRUE,
                           delays |-> delays]
                     ELSE IF e.os_error
                     THEN IF e.errno = 11 /\ attempt < max_retries
                          THEN retried
                          ELSE [calls |-> attempt + 1, raised |-> e,
                                delays |-> delays]
                     ELSE IF mentions_connection(lower(e.message))
                             /\ attempt < max_retries
                     THEN retried
                     ELSE [calls |-> attempt + 1, raised |-> e,
                           delays |-> delays]
    IN  loop(0, <<>>)

\* what an attempt of the wrapped function may do
Attempts ==
    {[returns |-> TRUE]}
    \cup {[returns |-> FALSE, os_error |-> e[1], errno |-> e[2],
            message |-> e[3]] :
             e \in {<<TRUE, 11, <<"resource temporarily unavailable">>>>,
                    <<TRUE, 111, <<"Connection", "refused">>>>,
                    <<TRUE, 2, <<"no such file">>>>,
                    <<FALSE, 0, <<"Timeout", "of the read">>>>,
                    <<FALSE, 0, <<"duplicate key">>>>}}

\* a call of a function wrapped by retry_with_backoff(max_retries)
RetryWithBackoff(max_retries, attempts) ==
    /\ Delivered
    /\ result' = [op |-> "retry_with_backoff", max_retries |-> max_retries,
                  attempts |-> attempts,
                  value |-> retry_with_backoff(max_retries, attempts)]
    /\ UNCHANGED <<db, now, programs, next_uuid, active_sessions, session,
                   process, temp_files, monitor, call, history>>

NextFunctions ==
    \/ Delivered /\ \E expected_output \in Texts, outcome \in Outcomes(Texts) :
           ExecuteSingleTest([input_data |-> <<<<"1">>>>,
                              expected_output |-> expected_output], outcome)
    \/ Delivered /\ \E error_message \in ErrorTexts, line_mapping \in LineMaps :
           ConvertLineNumbers(error_message, line_mapping)
    \/ Delivered /\ \E questions \in Questions, user_answers \in UserAnswers,
                        total_points \in 0..(2 * MaxQuestions) :
           ScoreQuizSubmission(questions, user_answers, total_points)
    \/ Delivered /\ \E output_lines \in DebugBuffers :
           DebugStepSnapshot(output_lines)
    \/ Delivered /\ \E max_retries \in 0..MaxRetries :
           \E attempts \in [1..(max_retries + 1) -> Attempts] :
               RetryWithBackoff(max_retries, attempts)
    \/ Return

SpecFunctions == InitWith({}) /\ [][NextFunctions]_vars


-----------------------------------------------------------------------------
(* Properties of the functions                                              *)

\* C24: a test case whose run gave no error passes iff the stdout of the
\* child and the expected output are equal once the white space at the end
\* of every line and at the end of the text is removed; white space at the
\* start is significant, and the recorded actual_output is the stdout
\* trimmed in this way.
C24_TrailingTrimOnly ==
    LET trimmed(text) ==
            LET lines == split(text, NL)
            IN  rstrip(join([n \in 1..Len(lines) |-> rstrip(lines[n], " ")]),
                       NL)
        outcome == result.outcome
        expected == result.test_case.expected_output
    IN  ( /\ result.op = "_execute_single_test"
          /\ outcome.kind = "exit"
          /\ outcome.stderr = <<>> ) =>
            /\ result.value.status = "passed"
                   <=> trimmed(outcome.stdout) = trimmed(expected)
            /\ result.value.actual_output = trimmed(outcome.stdout)


\* C25: the result of a graded submission shows the hidden test cases only
\* as counts: visible_tests holds one entry per test case that is not
\* hidden, in the order of the cases and made of that case and its run
\* alone; hidden_tests holds exactly total, passed and failed, with
\* total = passed + failed = the number of hidden cases; the result has no
\* other part that could hold an input, an output or an error text.
C25_HiddenCasesOnlyCounted ==
    ( /\ Submitted
      /\ CasesOf # <<>>
      /\ ~IsRecordWith(transpile(result.user_code, FALSE), "raised") ) =>
        LET value == result.value
            shown == SelectSeq([i \in 1..Len(CasesOf) |-> i],
                               LAMBDA i : ~CasesOf[i].is_hidden)
            hidden == {i \in 1..Len(CasesOf) : CasesOf[i].is_hidden}
            run(i) == _execute_single_test(<<>>, <<>>, CasesOf[i],
                                           result.outcomes[i])
        IN  /\ DOMAIN value = {"success", "submission_id", "status", "score",
                               "tests_passed", "tests_total", "test_results"}
            /\ DOMAIN value.test_results = {"visible_tests", "hidden_tests"}
            /\ Len(value.test_results.visible_tests) = Len(shown)
            /\ \A k \in 1..Len(shown) :
                   LET entry == value.test_results.visible_tests[k]
                   IN  /\ entry.input_data = CasesOf[shown[k]].input_data
                       /\ entry.expected_output
                              = CasesOf[shown[k]].expected_output
                       /\ entry.actual_output = run(shown[k]).actual_output
                       /\ entry.status = run(shown[k]).status
                       /\ DOMAIN entry \subseteq
                              {"input_data", "expected_output",
                               "actual_output", "status", "explanation",
                               "error_message", "english_error"}
            /\ value.test_results.hidden_tests
                   = [total |-> Cardinality(hidden),
                      passed |-> Cardinality(hidden \cap PassedOf),
                      failed |-> Cardinality(hidden \ PassedOf)]


\* C26 as stated: converting the converted text again with the same map
\* changes nothing.
C26_RemapIdempotent ==
    result.op = "_convert_line_numbers" =>
        _convert_line_numbers(result.value, result.line_mapping)
            = result.value

\* C26: converting the converted text again with the same map changes
\* nothing when the map sends every line number it yields to itself
\* (a number that is no key counts as sent to itself).
C26_RemapIdempotentOnFixedMaps ==
    LET line_mapping == result.line_mapping
    IN  ( /\ result.op = "_convert_line_numbers"
          /\ \A k \in DOMAIN line_mapping :
                 line_mapping[k] \in DOMAIN line_mapping
                     => line_mapping[line_mapping[k]] = line_mapping[k] ) =>
            _convert_line_numbers(result.value, line_mapping) = result.value

\* a text with two line numbers has been converted with a map that is not
\* the identity and sends what it yields to itself: both numbers changed
C26_Witness ==
    /\ result.op = "_convert_line_numbers"
    /\ result.line_mapping = (2 :> 1 @@ 3 :> 1)
    /\ result.error_message = <<"l", "i", "n", "e", " ", "2",
                                "l", "i", "n", "e", " ", "3">>
    /\ result.value = <<"l", "i", "n", "e", " ", "1",
                        "l", "i", "n", "e", " ", "1">>


\* C27: the converted text is the error text with the digits of every
\* occurrence of 'line N' replaced by line_mapping[N] when N is a key of the
\* map, and with everything else, the digits of the other occurrences
\* included, as it was; with an empty map it is the error text.
C27_RemapFunctional ==
    LET line_mapping == result.line_mapping
        word == <<"l", "i", "n", "e", " ">>
        RECURSIVE expected(_)
        expected(text) ==
            IF Len(text) <= Len(word) THEN text
            ELSE IF SubSeq(text, 1, Len(word)) = word
                    /\ IsDigit(text[Len(word) + 1])
            THEN LET digits == SubSeq(text, Len(word) + 1,
                                      Len(word) + indentation(
                                          [i \in 1..(Len(text) - Len(word)) |->
                                              IF IsDigit(text[Len(word) + i])
                                              THEN " " ELSE "x"]))
                 IN  word
                     \o (IF int(digits) \in DOMAIN line_mapping
                         THEN str(line_mapping[int(digits)]) ELSE digits)
                     \o expected(SubSeq(text, Len(word) + Len(digits) + 1,
                                        Len(text)))
            ELSE <<text[1]>> \o expected(Tail(text))
    IN  result.op = "_convert_line_numbers" =>
            result.value = expected(result.error_message)


\* every question of the call has an answer, the correct one
AllCorrect ==
    /\ result.op = "_score_quiz_submission"
    /\ \A i \in 1..Len(result.questions) :
           /\ result.questions[i].id \in DOMAIN result.user_answers
           /\ result.user_answers[result.questions[i].id]
                  = result.questions[i].correct_answer

\* C28 as stated: when every answer is the correct one the score is
\* total_points.
C28_AllCorrectScoresTotal ==
    AllCorrect => result.value.score = result.total_points

\* C28: when every answer is the correct one the score is the sum of the
\* points_weight of the questions, whatever total_points is; the two are
\* equal when total_points is that sum.
C28_AllCorrectScoresWeights ==
    LET RECURSIVE weights(_)
        weights(i) == IF i = 0 THEN 0
                      ELSE weights(i - 1) + result.questions[i].points_weight
    IN  AllCorrect => result.value.score = weights(Len(result.questions))

\* two questions answered correctly, with a total_points that is not the
\* sum of their weights
C28_Witness ==
    /\ AllCorrect
    /\ Len(result.questions) = 2
    /\ result.questions[1].id # result.questions[2].id
    /\ result.value.score = 3
    /\ result.total_points = 4


\* C29: a question is marked correct iff the answers hold an answer for it
\* that is its correct choice (no answer, or the answer None, is incorrect);
\* score is the sum of the weights of the correct questions,
\* questions_correct their number, questions_total the number of questions,
\* and detailed_results has one entry per question, in the order of the list.
C29_ScoringHelper ==
    LET questions == result.questions
        value == result.value
        answered(i) == /\ questions[i].id \in DOMAIN result.user_answers
                       /\ result.user_answers[questions[i].id] # None
        correct == {i \in 1..Len(questions) :
                       /\ answered(i)
                       /\ result.user_answers[questions[i].id]
                              = questions[i].correct_answer}
        RECURSIVE weights(_)
        weights(i) == IF i = 0 THEN 0
                      ELSE weights(i - 1)
                           + IF i \in correct THEN questions[i].points_weight
                             ELSE 0
    IN  result.op = "_score_quiz_submission" =>
            /\ value.score = weights(Len(questions))
            /\ value.questions_correct = Cardinality(correct)
            /\ value.questions_total = Len(questions)
            /\ Len(value.detailed_results) = Len(questions)
            /\ \A i \in 1..Len(questions) :
                   /\ value.detailed_results[i].question_id = questions[i].id
                   /\ value.detailed_results[i].is_correct <=> i \in correct
                   /\ value.detailed_results[i].correct_answer
                          = questions[i].correct_answer
                   /\ value.detailed_results[i].points_weight
                          = questions[i].points_weight

\* a quiz of two questions scored with one correct answer and one question
\* left without answer
C29_Witness ==
    /\ result.op = "_score_quiz_submission"
    /\ Len(result.questions) = 2
    /\ result.questions[1].id = 1
    /\ result.questions[2].id = 2
    /\ DOMAIN result.user_answers = {1}
    /\ result.value.questions_correct = 1
    /\ result.value.score = 2
    /\ ~result.value.detailed_results[2].is_correct


-----------------------------------------------------------------------------
(* Properties of the challenges                                             *)

\* C30: every published challenge has an example test case and a hidden
\* test case, and the weights of its test cases sum to its reward points.
C30_PublishedChallengesComplete ==
    \A challenge_id \in 1..Len(db.challenges) :
        db.challenges[challenge_id].status = "published" =>
            LET test_cases ==
                    SelectSeq(db.test_cases,
                              LAMBDA row : row.challenge_id = challenge_id)
            IN  /\ _validate_challenge_for_publishing(test_cases)
                /\ _validate_test_case_weights(
                       test_cases, db.challenges[challenge_id].reward_points)

-----------------------------------------------------------------------------
(* The prompts: sessions of programs that read more than one line, and of  *)
(* programs that print the prompt marker themselves                        *)

\* igama = input("A: ") ; ifani = input("B: ")
Dialogue == <<Src("input", <<"A: ">>), Src("input", <<"B: ">>)>>
\* print(">>>x") ; ngexesha Inyaniso: dlula
Pretender == <<Src("print", <<PROMPT, "x">>), Src("loop", <<>>)>>

PromptPrograms ==
    {Request(Dialogue, FALSE), Request(Pretender, FALSE),
     Request(Failing, FALSE), Request(TwoSteps, TRUE)}

InitPrompts == InitWith(PromptPrograms)

SpecPrompts == InitPrompts /\ [][Next]_vars

\* the child of id has read a line and is blocked in a later input("") with
\* nothing to read, and all it has printed is in the output buffer
BlockedAfterInput(id) ==
    /\ AtLine(id, {"input"})
    /\ CountLines(process[id].stdin) = 0
    /\ \E earlier \in 1..(process[id].pc - 1) :
           process[id].code[earlier].op = "input"
    /\ process[id].stdout = <<>>
    /\ monitor[id].out.pc \in {"poll", "read"}

\* C31: when the child, having received an input, has printed a new prompt
\* and is blocked reading stdin, a status call that is the only call in
\* progress reports waiting_for_input with that prompt.
C31_NoPromptLost ==
    \A id \in SessionIds :
        ( /\ result.op = "status"
          /\ result.id = id
          /\ call = NoCall
          /\ id \in Spawned
          /\ BlockedAfterInput(id) )
        => /\ IsRecordWith(result.value, "waiting_for_input")
           /\ result.value.waiting_for_input
           /\ IsRecordWith(result.value, "prompt")
           /\ <<PROMPT>> \o result.value.prompt = Last(history[id].written)

\* the value of an operation that ended in an exception of the supervisor's
\* own code, propagated or reported by an except clause
InternalFailure(value) ==
    \/ IsRecordWith(value, "raised")
    \/ /\ IsRecordWith(value, "error")
       /\ Len(value.error) = 2
       /\ value.error[2] \in {"IndexError", "TypeError", "ValueError"}

\* C32: under every interleaving of the stdout monitor with start, status,
\* supplyInput and kill on a session, no operation ends in an internal
\* exception.
C32_NoInternalException ==
    result.op \in {"start", "status", "continue", "kill"}
        => ~InternalFailure(result.value)

\* C33: a snapshot returned while no other call is in progress reports
\* waiting_for_input only when the statement the child is at reads stdin; a
\* child that printed a line beginning with >>> and computes on is not
\* reported as waiting.
C33_WaitingOnlyWhenBlocked ==
    \A id \in SessionIds :
        ( /\ result.op \in {"start", "status", "continue"}
          /\ result.id = id
          /\ call = NoCall
          /\ IsRecordWith(result.value, "waiting_for_input")
          /\ result.value.waiting_for_input )
        => AtLine(id, {"input"})

-----------------------------------------------------------------------------
(* Properties of the submission records                                     *)

\* C34: when execute_challenge_submission has returned, every submission
\* record it created holds a final status: passed, failed or error.
C34_SubmissionFinalised ==
    Submitted =>
        \A submission_id \in 1..Len(db.submissions) :
            db.submissions[submission_id].status \in {"passed", "failed", "error"}

-----------------------------------------------------------------------------
(* Properties of the debug snapshot                                         *)

\* the last line of the buffer that starts with the marker, without it
LastMarked(output_lines, marker) ==
    LET at == CHOOSE i \in 1..Len(output_lines) :
                  /\ startswith(output_lines[i], <<DDD, marker>>)
                  /\ \A j \in (i + 1)..Len(output_lines) :
                         ~startswith(output_lines[j], <<DDD, marker>>)
    IN  SubSeq(output_lines[at], 3, Len(output_lines[at]))

\* C35: the snapshot of a debug pause gives, as current_line and variables,
\* the numbers of the last D-D-D:LINE and the last D-D-D:VARS line of the
\* output buffer, however many lines the statement printed between them.
C35_MostRecentMarkers ==
    result.op = "_parse_debug_output" =>
        /\ IsRecordWith(result.value, "current_line")
        /\ result.value.current_line = int(LastMarked(result.output_lines, "LINE:"))
        /\ result.value.variables = int(LastMarked(result.output_lines, "VARS:"))

-----------------------------------------------------------------------------
(* Properties of the comment split                                          *)

\* the source lines that hold a # inside a string literal
HashInString ==
    {n \in 1..Len(SourceOf) : Occurrences(SourceOf[n], {"string"}, {"#"}) # {}}

\* C36: a # inside a string literal starts no comment: in every target line
\* that comes from a source line with such a #, the code after the literal
\* has its keywords substituted, and the comment of the target line is the
\* text after the first # outside a literal of the source line.
C36_HashInStringIsCode ==
    TranspileReturned =>
        \A n \in HashInString :
            \A t \in 1..Len(TargetOf) :
                ( /\ result.value.line_mapping[t] = n
                  /\ Occurrences(TargetOf[t], {"string"}, {"#"}) # {} )
                => /\ Occurrences(TargetOf[t], {"code"}, source_keywords) = {}
                   /\ Occurrences(TargetOf[t], {"comment"}, {"#"})
                          = Occurrences(SourceOf[n], {"comment"}, {"#"})

-----------------------------------------------------------------------------
(* Properties of the debug instrumentation                                  *)

\* a line of the target that prints a D-D-D:LINE marker
IsLineMarker(line) ==
    startswith(strip(line), <<"print", "(", "\"", DDD, "LINE:">>)

\* C37: in a target returned in debug mode, the statement after each
\* D-D-D:LINE marker (after its >>> prompt line, when it reads input) is
\* followed by the D-D-D:VARS line, the D-D-D:STEP line and the pause
\* input("") exactly when it does not begin with return, break, continue or
\* raise, and no debug_pause() remains.
C37_PauseUnlessEarlyExit ==
    (TranspileReturned /\ call.mode = "debug") =>
        /\ Count(result.value.code, "debug_pause") = 0
        /\ \A t \in 1..Len(TargetOf) :
               IsLineMarker(TargetOf[t]) =>
                   LET statement ==
                           IF t < Len(TargetOf)
                              /\ Count(TargetOf[t + 1], PROMPT) > 0
                           THEN t + 2 ELSE t + 1
                       followed ==
                           /\ statement + 3 <= Len(TargetOf)
                           /\ Count(TargetOf[statement + 1], "VARS:") > 0
                           /\ Count(TargetOf[statement + 2], "STEP") > 0
                           /\ strip(TargetOf[statement + 3]) = empty_input
                   IN  /\ statement <= Len(TargetOf)
                       /\ followed
                          <=> strip(TargetOf[statement])[1]
                                  \notin {"return", "break", "continue", "raise"}

-----------------------------------------------------------------------------
(* Properties of the phases after validation                                *)

\* C38: for a source program with no Python keyword in code position, in
\* every mode, transpile_code raises nothing and returns a target source
\* and a line map.
C38_PhasesTotal ==
    (result.op = "transpile_code" /\ Offending = {}) =>
        /\ ~IsRecordWith(result.value, "raised")
        /\ IsRecordWith(result.value, "code")
        /\ IsRecordWith(result.value, "line_mapping")

-----------------------------------------------------------------------------
(* Properties of a failed start                                             *)

\* C39: when start has failed in open() or in Popen, the value returned has
\* completed true and an error that begins 'Failed to start execution', no
\* session is registered under the id, no monitor runs for it, and the file
\* temp_<id>.py does not exist.
C39_FailedStartLeavesNothing ==
    ( /\ result.op = "start"
      /\ IsRecordWith(result.value, "error")
      /\ result.value.error = <<"Failed to start execution: ", "OSError">> )
    => /\ result.value.completed
       /\ result.id \notin active_sessions
       /\ monitor[result.id] = NoMonitor
       /\ result.id \notin temp_files

-----------------------------------------------------------------------------
(* Properties of the retry wrapper                                          *)

\* an exception the wrapper is meant to retry: errno 11, or a message that
\* mentions connection, timeout or temporarily unavailable
Retryable(e) ==
    \/ e.errno = 11
    \/ mentions_connection(lower(e.message))

\* C40: a call of a wrapped function invokes it at most max_retries + 1
\* times; it returns at the first attempt that succeeds, raises a
\* non-retryable exception after the attempt that raised it, and, when all
\* max_retries + 1 attempts fail with a retryable exception, raises the last
\* of them after exactly max_retries + 1 invocations.
C40_RetryBounded ==
    result.op = "retry_with_backoff" =>
        LET attempts == result.attempts
            value == result.value
            last == result.max_retries + 1
            stops(k) == attempts[k].returns \/ ~Retryable(attempts[k])
            first == IF \E k \in 1..last : stops(k)
                     THEN CHOOSE k \in 1..last :
                              stops(k) /\ \A j \in 1..(k - 1) : ~stops(j)
                     ELSE last
        IN  /\ value.calls <= last
            /\ value.calls = first
            /\ IF attempts[first].returns
               THEN IsRecordWith(value, "returned")
               ELSE /\ IsRecordWith(value, "raised")
                    /\ value.raised = attempts[first]

====
